---- MODULE Spec2Model ----
(***************************************************************************)
(* Model of the core engine: the model router (router.py), the model       *)
(* wrappers' retry policy (openai_model.py, opensource_model.py), the      *)
(* complexity heuristic the router selects by, the context retrieval and   *)
(* learning extraction (retrieval.py), the persistence layer               *)
(* (persistence.py, vector_db.py), the conversation endpoints that write   *)
(* through it (conversation.py), the performance tracker                   *)
(* (performance_tracker.py) and the two API gateways.                      *)
(*                                                                         *)
(* The specifications share the module and its variables:                  *)
(*   Spec            the ModelRouter: construction, _select_model,         *)
(*                   generate and generate_stream with their fallbacks     *)
(*   SpecComplexity  _estimate_complexity over queries built word by word  *)
(*   SpecWrapper     one call of a model wrapper's generate, with the      *)
(*                   retry decorator around it                             *)
(*   SpecLearning    extract_learning over conversations built turn by     *)
(*                   turn                                                  *)
(*   SpecMemory      the episodic memory and the knowledge base: writes,   *)
(*                   vector mirror, searches                               *)
(*   SpecStore       save_conversation and load_conversation under the     *)
(*                   send_message and websocket requests                   *)
(*   SpecContext     get_combined_context over the stores                  *)
(*   SpecTracker     PerformanceTracker: construction over a metrics file, *)
(*                   recording, saving and loading                         *)
(*   SpecGateway     process_message of the two gateways over the session  *)
(*                   histories of the model manager                        *)
(*   SpecChat        send_message and the websocket, one message at a      *)
(*                   time, with the learnings they store                   *)
(*   SpecSocket      the websocket over ModelRouter.generate_stream        *)
(***************************************************************************)
EXTENDS Integers, Sequences, FiniteSets, TLC

VARIABLES
    \* ---- environment of the router
    is_available,          \* wrapper name -> BOOLEAN (BaseModelWrapper.is_available)
    primary_arg,           \* ModelRouter(primary_model=...)
    fallback_arg,          \* ModelRouter(fallback_models=...)
    \* ---- ModelRouter fields
    primary_model,         \* self._primary_model
    fallback_models,       \* self._fallback_models
    complexity_threshold,  \* self._complexity_threshold
    token_threshold,       \* self._token_threshold
    \* ---- one generate / generate_stream call
    pc,                    \* position of the call
    op,                    \* "generate" | "generate_stream" | "none"
    query,                 \* the query of the call
    token_count,           \* primary.get_token_count(query)
    model,                 \* the model _select_model returned
    e,                     \* the exception caught from the selected model
    idx,                   \* position of the fallback loop in fallback_models
    log,                   \* the model calls made, each with its status
    outcome,               \* what the call returned or raised
    chunks,                \* the chunks generate_stream has yielded
    \* ---- _estimate_complexity explorer
    cq,                    \* the query explored
    cscore,                \* what _estimate_complexity returned for cq
    \* ---- one wrapper generate call
    w_class,               \* "OpenAIModelWrapper" | "OpenSourceModelWrapper"
    w_pc,                  \* "idle" | "calling" | "returned" | "raised"
    w_calls,               \* the outcome of every attempt made, in order
    \* ---- ContextRetrieval.extract_learning
    conversation,          \* conversation.messages of the conversation scanned
    learned_from,          \* the arguments of the last extract_learning call
    learnings,             \* what that call returned
    \* ---- MemoryPersistence: episodic memory and knowledge base
    vector_db_client,      \* whether self._vector_db_client is set
    episodic_memory,       \* the rows of table episodic_memory, by rowid
    vector_store,          \* collection name -> the documents of the collection
    acked,                 \* the memory ids add_episodic_memory has returned
    ret,                   \* the last persistence call: arguments and result
    \* ---- MemoryPersistence: conversations, and the requests writing them
    conversations,         \* the rows of table conversations
    messages,              \* the rows of table messages, by rowid
    clock,                 \* datetime.utcnow(), one tick per message created
    requests,              \* request -> position, Conversation object held
    last_commit,           \* the conversation of the last committed save
    response,              \* the last response of send_message
    \* ---- PerformanceTracker
    tracker,               \* metrics file, tracker.metrics, last record_* call
    \* ---- the in-memory engine behind the API gateways
    gateway,               \* conversation_histories, the requests made, the
                           \* history of the last chat_with_history call
    \* ---- one message through send_message or the websocket endpoint
    chat                   \* position, endpoint, verified subject, user id
                           \* used, Conversation object, memory accesses

routerVars == <<is_available, primary_arg, fallback_arg, primary_model,
                fallback_models, complexity_threshold, token_threshold,
                pc, op, query, token_count, model, e, idx, log, outcome, chunks>>
wrapperVars == <<w_class, w_pc, w_calls>>
complexityVars == <<cq, cscore>>
learningVars == <<conversation, learned_from, learnings>>
memoryVars == <<vector_db_client, episodic_memory, vector_store, acked, ret>>
storeVars == <<conversations, messages, clock, requests, last_commit,
               response>>
trackerVars == <<tracker>>
gatewayVars == <<gateway>>
chatVars == <<chat>>
restVars == <<trackerVars, gatewayVars, chatVars>>
dataVars == <<learningVars, memoryVars, storeVars, restVars>>
vars == <<routerVars, complexityVars, wrapperVars, dataVars>>

-----------------------------------------------------------------------------
(* Bounds of the model *)

MaxFallbacks == 2     \* longest caller-supplied fallback list
MaxChunks == 1        \* most content chunks one model stream yields
MaxWords == 4         \* most words of an explored query

-----------------------------------------------------------------------------
(* Queries.  A query is a sequence of words (maximal runs of \w             *)
(* characters) separated by single spaces, followed by `pad` filler        *)
(* characters that are not word characters.                                *)

Vocab == {"analyze", "ANALYZE", "Explain", "debug", "prove", "analyzed"}

\* str.lower() on the vocabulary (re.IGNORECASE compares case-folded text)
LowerCase(w) ==
    CASE w = "ANALYZE" -> "analyze"
      [] w = "Explain" -> "explain"
      [] OTHER -> w

RECURSIVE WordChars(_)
WordChars(ws) ==
    IF ws = <<>> THEN 0 ELSE Len(Head(ws)) + WordChars(Tail(ws))

\* len(query)
QueryLen(q) ==
    WordChars(q.words) + (IF Len(q.words) > 0 THEN Len(q.words) - 1 ELSE 0) + q.pad

\* the local list complex_keywords of _estimate_complexity
complex_keywords ==
    <<"analyze", "compare", "evaluate", "synthesize", "critique",
      "explain", "derive", "prove", "optimize", "debug">>

\* a search without the two \b: the keyword matches inside a longer word
KeywordSearchNoBoundary(keyword, q) ==
    \E i \in 1..Len(q.words) :
        \/ LowerCase(q.words[i]) = keyword
        \/ q.words[i] = "analyzed" /\ keyword = "analyze"

\* re.search(r'\b' + keyword + r'\b', query, re.IGNORECASE): the keyword is
\* made of word characters only, so it matches exactly when some maximal run
\* of word characters of the query equals it up to case.
KeywordSearch(keyword, q) ==
    \E i \in 1..Len(q.words) : LowerCase(q.words[i]) = keyword

Max(a, b) == IF a >= b THEN a ELSE b
Min(a, b) == IF a <= b THEN a ELSE b

\* the loop "for keyword in complex_keywords" from position k on
RECURSIVE KeywordLoop(_, _, _)
KeywordLoop(k, q, complexity) ==
    IF k > Len(complex_keywords) THEN complexity
    ELSE KeywordLoop(k + 1, q,
                     IF KeywordSearch(complex_keywords[k], q)
                     THEN complexity + 1 ELSE complexity)

\* a length bonus of 1 where the code adds 2
LengthBranchBonusOne(q, complexity) ==
    IF QueryLen(q) > 1000 THEN complexity + 1
    ELSE IF QueryLen(q) < 100 THEN complexity - 1
    ELSE complexity

\* the two length branches of _estimate_complexity
LengthBranch(q, complexity) ==
    IF QueryLen(q) > 1000 THEN complexity + 2
    ELSE IF QueryLen(q) < 100 THEN complexity - 1
    ELSE complexity

\* return max(1, min(10, complexity))
Cap(complexity) == Max(1, Min(10, complexity))

\* ModelRouter._estimate_complexity
estimate_complexity(q) == Cap(KeywordLoop(1, q, LengthBranch(q, 5)))

-----------------------------------------------------------------------------
(* The model wrappers the router is built from, identified by model_name.  *)

GPT4 == "gpt-4"
GPT35Turbo == "gpt-3.5-turbo"
Llama == "meta-llama/Llama-2-7b-chat-hf"
Mistral == "mistralai/Mistral-7B-Instruct-v0.1"
Wrappers == {GPT4, GPT35Turbo, Llama, Mistral}
None == "None"

DefaultComplexityThreshold == 7
DefaultTokenThreshold == 2000

\* the list ModelRouter.__init__ builds when no fallback list is given
DefaultFallbacks == <<GPT35Turbo, Llama, Mistral>>

\* self._primary_model = primary_model or GPT4Wrapper()
RouterPrimary(parg) == IF parg = None THEN GPT4 ELSE parg

\* self._fallback_models = fallback_models or [defaults], then the filter
\* [model for model in self._fallback_models if model.is_available]
RouterFallbacks(farg, avail) ==
    LET given == IF farg.given /\ farg.list # <<>> THEN farg.list
                 ELSE DefaultFallbacks
    IN  SelectSeq(given, LAMBDA m : avail[m])

SeqsUpTo(S, n) == UNION {[1..k -> S] : k \in 0..n}

PrimaryArgs == {None, GPT35Turbo}
FallbackArgs ==
    {[given |-> FALSE, list |-> <<>>]}
    \cup {[given |-> TRUE, list |-> l] : l \in SeqsUpTo(Wrappers, MaxFallbacks)}
ThresholdChoices ==
    {<<DefaultComplexityThreshold, DefaultTokenThreshold>>, <<9, 50>>}

\* the queries sent to the router and the token counts a tokenizer may
\* report for them (a token covers at least one byte, a character at most 4)
QuerySamples ==
    {[words |-> <<"weather">>, pad |-> 0],
     [words |-> <<"weather">>, pad |-> 600],
     [words |-> <<"analyze", "Explain">>, pad |-> 600],
     [words |-> <<"weather">>, pad |-> 1300],
     [words |-> <<"ANALYZE", "debug">>, pad |-> 1300]}
TokenCounts == {10, 2000, 2001, 5000}
BytesPerChar == 4
get_token_count_range(q) == {t \in TokenCounts : t <= BytesPerChar * QueryLen(q)}

NoModelAvailable == "No language models are available"

\* the primary only when the query is complex AND within the token threshold
select_model_and(q, tokens) ==
    IF ~is_available[primary_model]
    THEN IF fallback_models = <<>> THEN NoModelAvailable
         ELSE fallback_models[1]
    ELSE IF estimate_complexity(q) >= complexity_threshold
            /\ tokens <= token_threshold
         THEN primary_model
         ELSE IF fallback_models # <<>> THEN fallback_models[1]
              ELSE primary_model

\* a selection that never looks at the primary's availability
select_model_unchecked(q, tokens) ==
    IF estimate_complexity(q) >= complexity_threshold
       \/ tokens <= token_threshold
    THEN primary_model
    ELSE IF fallback_models # <<>> THEN fallback_models[1]
         ELSE primary_model

\* ModelRouter._select_model; NoModelAvailable stands for the RuntimeError
select_model(q, tokens) ==
    IF ~is_available[primary_model]
    THEN IF fallback_models = <<>> THEN NoModelAvailable
         ELSE fallback_models[1]
    ELSE IF estimate_complexity(q) >= complexity_threshold
            \/ tokens <= token_threshold
         THEN primary_model
         ELSE IF fallback_models # <<>> THEN fallback_models[1]
              ELSE primary_model

\* a loop test that does not compare the names
EligibleAvailableOnly(fallback_model, selected) ==
    is_available[fallback_model]

\* the test of the fallback loops of generate and generate_stream
Eligible(fallback_model, selected) ==
    fallback_model # selected /\ is_available[fallback_model]

\* "for fallback_model in self._fallback_models" from position j on: the
\* position of the next fallback that is tried, 0 when the loop runs out
RECURSIVE FallbackLoop(_)
FallbackLoop(j) ==
    IF j > Len(fallback_models) THEN 0
    ELSE IF Eligible(fallback_models[j], model) THEN j
    ELSE FallbackLoop(j + 1)

\* results of a call
NoOutcome == [kind |-> "none", text |-> None, cause |-> None]
Returned(m) == [kind |-> "returned", text |-> m, cause |-> None]
RaisedNoModel == [kind |-> "NoModelAvailable", text |-> None, cause |-> None]
AllModelsFailed(err) == [kind |-> "AllModelsFailed", text |-> None, cause |-> err]
StreamEnded == [kind |-> "stream_end", text |-> None, cause |-> None]

\* chunks of a stream
Content(m) == [type |-> "content", model |-> m]
Notice(m) == [type |-> "notice", model |-> m]
ErrorSentinel == [type |-> "error", model |-> None]

Running(m) == [model |-> m, status |-> "running"]
SetLast(l, st) == [l EXCEPT ![Len(l)].status = st]
Current == log[Len(log)].model

-----------------------------------------------------------------------------
(* The router: construction and one call at a time *)

callVars == <<pc, op, query, token_count, model, e, idx, log, outcome, chunks>>
configVars == <<is_available, primary_arg, fallback_arg, primary_model,
                fallback_models, complexity_threshold, token_threshold>>

CallIdle ==
    /\ pc = "idle" /\ op = "none"
    /\ query = [words |-> <<>>, pad |-> 0] /\ token_count = 0
    /\ model = None /\ e = None /\ idx = 0
    /\ log = <<>> /\ outcome = NoOutcome /\ chunks = <<>>

ComplexityIdle == cq = [words |-> <<>>, pad |-> 0] /\ cscore = 0
WrapperIdle == w_class = "none" /\ w_pc = "idle" /\ w_calls = <<>>
LearningIdle ==
    /\ conversation = <<>> /\ learnings = <<>>
    /\ learned_from = [messages |-> <<>>, user_id |-> None]
MemoryIdle ==
    /\ vector_db_client = FALSE /\ episodic_memory = <<>>
    /\ vector_store = [knowledge |-> <<>>, episodic_memory |-> <<>>]
    /\ acked = {} /\ ret = [op |-> "none"]
Requests == {"r1", "r2"}
NoResponse == [status |-> 0, saved |-> FALSE]
NoConversation ==
    [conversation_id |-> None, title |-> None, updated_at |-> 0,
     messages |-> <<>>]
StoreIdle ==
    /\ conversations = {} /\ messages = <<>> /\ clock = 0
    /\ requests = [r \in Requests |->
                      [pc |-> "idle", conversation |-> NoConversation,
                       stale |-> FALSE]]
    /\ last_commit = [conversation |-> NoConversation, concurrent |-> FALSE]
    /\ response = NoResponse
\* no PerformanceTracker constructed
NoCall == [category |-> None, raised |-> FALSE, before |-> 0]
TrackerIdle ==
    tracker = [file |-> [kind |-> "missing", data |-> <<>>], metrics |-> <<>>,
               constructed |-> FALSE, last |-> NoCall]
SessionKeys == {"", "s1", "s2", "u1", "u2", "u3", "u4"}
\* conversation_histories = {} and no request made
GatewayIdle ==
    gateway = [conversation_histories |-> [k \in SessionKeys |-> <<>>],
               calls |-> <<>>, sent |-> <<>>]
\* no message in progress, no message handled yet
ChatIdle ==
    chat = [pc |-> "idle", endpoint |-> None, subject |-> None,
            user_id |-> None, conversation |-> NoConversation,
            sent |-> <<>>, accesses |-> {}]
RestIdle == TrackerIdle /\ GatewayIdle /\ ChatIdle
DataIdle == LearningIdle /\ MemoryIdle /\ StoreIdle /\ RestIdle

\* ModelRouter.__init__
RouterInit ==
    /\ is_available \in [Wrappers -> BOOLEAN]
    /\ primary_arg \in PrimaryArgs
    /\ fallback_arg \in FallbackArgs
    /\ primary_model = RouterPrimary(primary_arg)
    /\ fallback_models = RouterFallbacks(fallback_arg, is_available)
    /\ \E th \in ThresholdChoices :
          complexity_threshold = th[1] /\ token_threshold = th[2]
    /\ CallIdle

Init == RouterInit /\ ComplexityIdle /\ WrapperIdle /\ DataIdle

\* generate, lines 130-136: select, then await model.generate
Generate(q, t) ==
    /\ pc = "idle"
    /\ op' = "generate" /\ query' = q /\ token_count' = t
    /\ LET sel == select_model(q, t) IN
         IF sel = NoModelAvailable
         THEN /\ pc' = "done" /\ outcome' = RaisedNoModel
              /\ UNCHANGED <<model, log>>
         ELSE /\ pc' = "selected_running" /\ model' = sel
              /\ log' = <<Running(sel)>>
              /\ UNCHANGED outcome
    /\ UNCHANGED <<e, idx, chunks, configVars, complexityVars, wrapperVars, dataVars>>

\* a return of the selected model's text whichever model answered
ModelReturnsSelected ==
    /\ op = "generate" /\ pc \in {"selected_running", "fallback_running"}
    /\ log' = SetLast(log, "returned")
    /\ outcome' = Returned(model)
    /\ pc' = "done"
    /\ UNCHANGED <<op, query, token_count, model, e, idx, chunks,
                   configVars, complexityVars, wrapperVars, dataVars>>

\* generate, lines 136 and 145: the awaited model returns its text
ModelReturns ==
    /\ op = "generate" /\ pc \in {"selected_running", "fallback_running"}
    /\ log' = SetLast(log, "returned")
    /\ outcome' = Returned(Current)
    /\ pc' = "done"
    /\ UNCHANGED <<op, query, token_count, model, e, idx, chunks,
                   configVars, complexityVars, wrapperVars, dataVars>>

\* a fallback loop that raises with the error of the last model tried
GenerateFallbacksLastError(j, err) ==
    LET n == FallbackLoop(j) IN
      IF n = 0
      THEN /\ pc' = "done" /\ outcome' = AllModelsFailed(Current)
           /\ log' = SetLast(log, "raised")
           /\ idx' = Len(fallback_models) + 1
      ELSE /\ pc' = "fallback_running" /\ idx' = n
           /\ log' = Append(SetLast(log, "raised"), Running(fallback_models[n]))
           /\ UNCHANGED outcome

\* generate, lines 141-150: the fallback loop from position j on, entered
\* with the error err of the selected model
GenerateFallbacks(j, err) ==
    LET n == FallbackLoop(j) IN
      IF n = 0
      THEN /\ pc' = "done" /\ outcome' = AllModelsFailed(err)
           /\ log' = SetLast(log, "raised")
           /\ idx' = Len(fallback_models) + 1
      ELSE /\ pc' = "fallback_running" /\ idx' = n
           /\ log' = Append(SetLast(log, "raised"), Running(fallback_models[n]))
           /\ UNCHANGED outcome

\* generate, line 137: the selected model raises
SelectedRaises ==
    /\ op = "generate" /\ pc = "selected_running"
    /\ e' = model
    /\ GenerateFallbacks(1, model)
    /\ UNCHANGED <<op, query, token_count, model, chunks,
                   configVars, complexityVars, wrapperVars, dataVars>>

\* generate, line 146: a fallback raises
FallbackRaises ==
    /\ op = "generate" /\ pc = "fallback_running"
    /\ GenerateFallbacks(idx + 1, e)
    /\ UNCHANGED <<op, query, token_count, model, e, chunks,
                   configVars, complexityVars, wrapperVars, dataVars>>

\* content chunks the running model stream has yielded so far
RECURSIVE StreamedBy(_)
StreamedBy(cs) ==
    IF cs = <<>> \/ cs[Len(cs)].type # "content" THEN 0
    ELSE 1 + StreamedBy(SubSeq(cs, 1, Len(cs) - 1))

\* generate_stream, lines 163-169: select, then iterate the model's stream
GenerateStream(q, t) ==
    /\ pc = "idle"
    /\ op' = "generate_stream" /\ query' = q /\ token_count' = t
    /\ LET sel == select_model(q, t) IN
         IF sel = NoModelAvailable
         THEN /\ pc' = "done" /\ outcome' = RaisedNoModel
              /\ UNCHANGED <<model, log>>
         ELSE /\ pc' = "selected_running" /\ model' = sel
              /\ log' = <<Running(sel)>>
              /\ UNCHANGED outcome
    /\ UNCHANGED <<e, idx, chunks, configVars, complexityVars, wrapperVars, dataVars>>

\* generate_stream, lines 170 and 183: yield chunk
StreamChunk ==
    /\ op = "generate_stream" /\ pc \in {"selected_running", "fallback_running"}
    /\ StreamedBy(chunks) < MaxChunks
    /\ chunks' = Append(chunks, Content(Current))
    /\ UNCHANGED <<pc, op, query, token_count, model, e, idx, log, outcome,
                   configVars, complexityVars, wrapperVars, dataVars>>

\* generate_stream, lines 169 and 182-184: the model's stream is exhausted
StreamCompletes ==
    /\ op = "generate_stream" /\ pc \in {"selected_running", "fallback_running"}
    /\ log' = SetLast(log, "returned")
    /\ outcome' = StreamEnded
    /\ pc' = "done"
    /\ UNCHANGED <<op, query, token_count, model, e, idx, chunks,
                   configVars, complexityVars, wrapperVars, dataVars>>

\* a fallback loop that switches models without the notice chunk
StreamFallbacksSilent(j) ==
    LET n == FallbackLoop(j) IN
      IF n = 0
      THEN /\ pc' = "done" /\ outcome' = StreamEnded
           /\ chunks' = Append(chunks, ErrorSentinel)
           /\ log' = SetLast(log, "raised")
           /\ idx' = Len(fallback_models) + 1
      ELSE /\ pc' = "fallback_running" /\ idx' = n
           /\ chunks' = chunks
           /\ log' = Append(SetLast(log, "raised"), Running(fallback_models[n]))
           /\ UNCHANGED outcome

\* a fallback loop that raises, as generate does, when every model failed
StreamFallbacksRaise(j) ==
    LET n == FallbackLoop(j) IN
      IF n = 0
      THEN /\ pc' = "done" /\ outcome' = AllModelsFailed(model)
           /\ chunks' = chunks
           /\ log' = SetLast(log, "raised")
           /\ idx' = Len(fallback_models) + 1
      ELSE /\ pc' = "fallback_running" /\ idx' = n
           /\ chunks' = Append(chunks, Notice(fallback_models[n]))
           /\ log' = Append(SetLast(log, "raised"), Running(fallback_models[n]))
           /\ UNCHANGED outcome

\* generate_stream, lines 175-189: the fallback loop from position j on
StreamFallbacks(j) ==
    LET n == FallbackLoop(j) IN
      IF n = 0
      THEN /\ pc' = "done" /\ outcome' = StreamEnded
           /\ chunks' = Append(chunks, ErrorSentinel)
           /\ log' = SetLast(log, "raised")
           /\ idx' = Len(fallback_models) + 1
      ELSE /\ pc' = "fallback_running" /\ idx' = n
           /\ chunks' = Append(chunks, Notice(fallback_models[n]))
           /\ log' = Append(SetLast(log, "raised"), Running(fallback_models[n]))
           /\ UNCHANGED outcome

\* generate_stream, line 171: the selected model's stream raises
StreamSelectedRaises ==
    /\ op = "generate_stream" /\ pc = "selected_running"
    /\ e' = model
    /\ StreamFallbacks(1)
    /\ UNCHANGED <<op, query, token_count, model,
                   configVars, complexityVars, wrapperVars, dataVars>>

\* generate_stream, line 185: a fallback's stream raises
StreamFallbackRaises ==
    /\ op = "generate_stream" /\ pc = "fallback_running"
    /\ StreamFallbacks(idx + 1)
    /\ UNCHANGED <<op, query, token_count, model, e,
                   configVars, complexityVars, wrapperVars, dataVars>>

\* the caller has its result; the router serves the next call
CallOver ==
    /\ pc = "done"
    /\ pc' = "idle" /\ op' = "none"
    /\ query' = [words |-> <<>>, pad |-> 0] /\ token_count' = 0
    /\ model' = None /\ e' = None /\ idx' = 0
    /\ log' = <<>> /\ outcome' = NoOutcome /\ chunks' = <<>>
    /\ UNCHANGED <<configVars, complexityVars, wrapperVars, dataVars>>

Next ==
    \/ \E q \in QuerySamples : \E t \in get_token_count_range(q) : Generate(q, t)
    \/ ModelReturns
    \/ SelectedRaises
    \/ FallbackRaises
    \/ \E q \in QuerySamples : \E t \in get_token_count_range(q) : GenerateStream(q, t)
    \/ StreamChunk
    \/ StreamCompletes
    \/ StreamSelectedRaises
    \/ StreamFallbackRaises
    \/ CallOver

Spec == Init /\ [][Next]_vars

-----------------------------------------------------------------------------
(* _estimate_complexity on queries built word by word *)

PadChoices == {0, 80, 100, 990, 1001}

\* a router with the default arguments, every model available
RouterDefault ==
    /\ is_available = [w \in Wrappers |-> TRUE]
    /\ primary_arg = None
    /\ fallback_arg = [given |-> FALSE, list |-> <<>>]
    /\ primary_model = RouterPrimary(primary_arg)
    /\ fallback_models = RouterFallbacks(fallback_arg, is_available)
    /\ complexity_threshold = DefaultComplexityThreshold
    /\ token_threshold = DefaultTokenThreshold
    /\ CallIdle

InitComplexity ==
    /\ RouterDefault /\ WrapperIdle /\ DataIdle
    /\ \E p \in PadChoices : cq = [words |-> <<>>, pad |-> p]
    /\ cscore = estimate_complexity(cq)

\* a new query of filler only
CqNew(p) ==
    /\ cq' = [words |-> <<>>, pad |-> p]
    /\ cscore' = estimate_complexity(cq')
    /\ UNCHANGED <<routerVars, wrapperVars, dataVars>>

\* one more word: the query grows
CqAppendWord(w) ==
    /\ Len(cq.words) < MaxWords
    /\ cq' = [cq EXCEPT !.words = Append(@, w)]
    /\ cscore' = estimate_complexity(cq')
    /\ UNCHANGED <<routerVars, wrapperVars, dataVars>>

\* one more word in the place of filler: the query keeps its length
CqReplaceFiller(w) ==
    LET need == Len(w) + (IF cq.words = <<>> THEN 0 ELSE 1) IN
    /\ Len(cq.words) < MaxWords
    /\ cq.pad >= need
    /\ cq' = [words |-> Append(cq.words, w), pad |-> cq.pad - need]
    /\ cscore' = estimate_complexity(cq')
    /\ UNCHANGED <<routerVars, wrapperVars, dataVars>>

NextComplexity ==
    \/ \E p \in PadChoices : CqNew(p)
    \/ \E w \in Vocab : CqAppendWord(w)
    \/ \E w \in Vocab : CqReplaceFiller(w)

SpecComplexity == InitComplexity /\ [][NextComplexity]_vars

-----------------------------------------------------------------------------
(* One call of a model wrapper's generate.  OpenAIModelWrapper.generate is  *)
(* wrapped in tenacity's retry; OpenSourceModelWrapper.generate is not.     *)

OpenAIWrapper == "OpenAIModelWrapper"
OpenSourceWrapper == "OpenSourceModelWrapper"

\* stop=stop_after_attempt(3)
StopAfterAttempt == 3

\* the exceptions a backend call raises
APIConnectionError == "openai.APIConnectionError"
RateLimitError == "openai.RateLimitError"
AuthenticationError == "openai.AuthenticationError"
BadRequestError == "openai.BadRequestError"
IndexError == "IndexError"
RuntimeError == "RuntimeError"
ConnectionError == "ConnectionError"

\* the subclasses of openai.APIError (every error the API client raises)
APIErrorClasses ==
    {APIConnectionError, RateLimitError, AuthenticationError, BadRequestError}

BackendErrors(cls) ==
    IF cls = OpenAIWrapper
    THEN APIErrorClasses \cup {IndexError}
    ELSE {RuntimeError, ConnectionError}

\* retry=retry_if_exception_type((openai.APIError, openai.APIConnectionError,
\* openai.RateLimitError)): isinstance(exc, one of the three)
RetryIfExceptionType(exc) ==
    \/ exc \in APIErrorClasses
    \/ exc = APIConnectionError
    \/ exc = RateLimitError

\* whether the call is made again after its attempt number n raised exc
Retries(cls, exc, n) ==
    /\ cls = OpenAIWrapper
    /\ RetryIfExceptionType(exc)
    /\ n < StopAfterAttempt

InitWrapper ==
    /\ RouterDefault /\ ComplexityIdle /\ WrapperIdle /\ DataIdle

\* wrapper.generate(prompt) is called
WrapperGenerate(cls) ==
    /\ w_pc = "idle"
    /\ w_class' = cls /\ w_pc' = "calling" /\ w_calls' = <<>>
    /\ UNCHANGED <<routerVars, complexityVars, dataVars>>

\* the attempt in progress returns the completion
AttemptReturns ==
    /\ w_pc = "calling"
    /\ w_calls' = Append(w_calls, "ok")
    /\ w_pc' = "returned"
    /\ UNCHANGED <<w_class, routerVars, complexityVars, dataVars>>

\* the attempt in progress raises exc; the retry decorator decides
AttemptRaises(exc) ==
    /\ w_pc = "calling"
    /\ w_calls' = Append(w_calls, exc)
    /\ w_pc' = IF Retries(w_class, exc, Len(w_calls) + 1)
               THEN "calling" ELSE "raised"
    /\ UNCHANGED <<w_class, routerVars, complexityVars, dataVars>>

WrapperOver ==
    /\ w_pc \in {"returned", "raised"}
    /\ w_class' = "none" /\ w_pc' = "idle" /\ w_calls' = <<>>
    /\ UNCHANGED <<routerVars, complexityVars, dataVars>>

NextWrapper ==
    \/ \E cls \in {OpenAIWrapper, OpenSourceWrapper} : WrapperGenerate(cls)
    \/ AttemptReturns
    \/ \E exc \in BackendErrors(w_class) : AttemptRaises(exc)
    \/ WrapperOver

SpecWrapper == InitWrapper /\ [][NextWrapper]_vars

-----------------------------------------------------------------------------
(* Properties of _estimate_complexity (SpecComplexity) *)

ReasoningKeywords ==
    {"analyze", "compare", "evaluate", "synthesize", "critique",
     "explain", "derive", "prove", "optimize", "debug"}

\* the words of q that are a keyword up to case, one per occurrence
KeywordOccurrences(q) ==
    {i \in 1..Len(q.words) : LowerCase(q.words[i]) \in ReasoningKeywords}

\* the keywords that occur in q as a word up to case
KeywordsPresent(q) ==
    {k \in ReasoningKeywords : \E i \in 1..Len(q.words) : LowerCase(q.words[i]) = k}

LengthBonus(q) ==
    IF QueryLen(q) > 1000 THEN 2 ELSE IF QueryLen(q) < 100 THEN -1 ELSE 0

Clamp(x) == IF x < 1 THEN 1 ELSE IF x > 10 THEN 10 ELSE x

\* C9 as stated: the score is 5, plus 2 for a query longer than 1000 or minus
\* 1 for one shorter than 100, plus 1 for each case-insensitive word-boundary
\* match of a keyword in the query (each occurrence), clamped to [1, 10].
C9_ScorePerMatch ==
    /\ cscore = Clamp(5 + LengthBonus(cq) + Cardinality(KeywordOccurrences(cq)))
    /\ cscore \in 1..10

\* C9 as amended: the score is 5, plus the length bonus, plus 1 for each
\* keyword of the set that matches the query at least once (a keyword that
\* occurs several times counts once), clamped to [1, 10]; always in [1, 10].
C9_ScorePerKeyword ==
    /\ cscore = Clamp(5 + LengthBonus(cq) + Cardinality(KeywordsPresent(cq)))
    /\ cscore \in 1..10

\* a long query with a repeated keyword and enough keywords for the cap
C9_Witness ==
    /\ QueryLen(cq) > 1000
    /\ Cardinality(KeywordOccurrences(cq)) > Cardinality(KeywordsPresent(cq))
    /\ Cardinality(KeywordsPresent(cq)) = 3
    /\ cscore = 10

\* C10: a query longer than 1000 characters without a keyword match scores
\* exactly 7; and a step that keeps the query's length and adds keyword
\* matches never lowers the score.
C10_LongQuerySevenAndMonotone ==
    /\ [](QueryLen(cq) > 1000 /\ KeywordsPresent(cq) = {} => cscore = 7)
    /\ [][(/\ QueryLen(cq') = QueryLen(cq)
           /\ KeywordsPresent(cq) \subseteq KeywordsPresent(cq'))
          => cscore' >= cscore]_vars

\* a long query holding a word that only contains a keyword
C10_Witness ==
    /\ QueryLen(cq) > 1000
    /\ \E i \in 1..Len(cq.words) : cq.words[i] = "analyzed"
    /\ KeywordsPresent(cq) = {}
    /\ cscore = 7

-----------------------------------------------------------------------------
(* Properties of the router (Spec) *)

IsPrefix(s, t) == Len(s) <= Len(t) /\ \A i \in 1..Len(s) : s[i] = t[i]

\* the models called so far, in the order of the calls
Attempted == [i \in 1..Len(log) |-> log[i].model]

\* the fallbacks that may follow the selected model: those that are
\* available and whose name is not the selected model's, in list order
FallbacksToTry ==
    SelectSeq(fallback_models, LAMBDA f : f # model /\ is_available[f])

AttemptOrder == <<model>> \o FallbacksToTry

AllRaised == \A i \in 1..Len(log) : log[i].status = "raised"
EarlierRaised == \A i \in 1..(Len(log) - 1) : log[i].status = "raised"

\* C1: with the primary available, _select_model returns the primary if the
\* complexity reaches complexity_threshold or the token count is within
\* token_threshold, otherwise the first fallback if there is one, else the
\* primary; with threshold 7 a query of complexity >= 7 gets the primary
\* whatever its token count.
C1_SelectModel ==
    (pc # "idle" /\ is_available[primary_model]) =>
        /\ model = IF \/ estimate_complexity(query) >= complexity_threshold
                      \/ token_count <= token_threshold
                   THEN primary_model
                   ELSE IF Len(fallback_models) > 0 THEN Head(fallback_models)
                   ELSE primary_model
        /\ (complexity_threshold = 7 /\ estimate_complexity(query) >= 7)
               => model = primary_model

\* a complex query over the token threshold went to the primary although a
\* fallback was there
C1_Witness ==
    /\ pc # "idle" /\ is_available[primary_model]
    /\ complexity_threshold = 7 /\ estimate_complexity(query) >= 7
    /\ token_count > token_threshold
    /\ fallback_models # <<>> /\ Head(fallback_models) # primary_model
    /\ model = primary_model

\* C2: in one generate call the selected model is called first; fallbacks
\* are called only after it raised, in list order, leaving out those that are
\* unavailable or named like the selected model; a model is called only when
\* every earlier call has raised, so no call follows one that returned.
C2_SequentialFallback ==
    (op = "generate" /\ log # <<>>) =>
        /\ Attempted[1] = model
        /\ IsPrefix(Attempted, AttemptOrder)
        /\ EarlierRaised
        /\ Cardinality({i \in 1..Len(log) : log[i].status = "running"}) <= 1

\* the selected model is the first fallback; the loop skipped it and tried
\* the two after it
C2_Witness ==
    /\ op = "generate" /\ pc = "done"
    /\ Len(fallback_models) = 3 /\ model = fallback_models[1]
    /\ Attempted = fallback_models
    /\ outcome.kind = "returned"

\* C3: generate returns the text of the first model, in attempt order, whose
\* call does not raise; when the primary was selected and raised and a
\* fallback answered, the result is that fallback's text and the primary was
\* called exactly once.
C3_FirstSuccessReturned ==
    /\ (op = "generate" /\ \E i \in 1..Len(log) : log[i].status = "returned")
           => outcome.kind = "returned"
    /\ (op = "generate" /\ outcome.kind = "returned") =>
        /\ log # <<>> /\ log[Len(log)].status = "returned"
        /\ outcome.text = log[Len(log)].model
        /\ EarlierRaised
        /\ IsPrefix(Attempted, AttemptOrder)
        /\ (model = primary_model /\ Len(log) > 1) =>
              /\ outcome.text # primary_model
              /\ \E j \in 1..Len(fallback_models) : fallback_models[j] = outcome.text
              /\ Cardinality({i \in 1..Len(log) : log[i].model = primary_model}) = 1

\* the primary raised and the router's only fallback answered
C3_Witness ==
    /\ op = "generate" /\ pc = "done"
    /\ model = primary_model /\ Len(fallback_models) = 1
    /\ Len(log) = 2 /\ log[1].status = "raised"
    /\ outcome = Returned(fallback_models[1])

\* C4: when the selected model and every eligible fallback raise, generate
\* fails with the all-models-failed error, which carries the error of the
\* first call (the selected model's), not a fallback's.
C4_AllFailedFirstError ==
    /\ (op = "generate" /\ pc = "done" /\ log # <<>> /\ AllRaised)
           => outcome.kind = "AllModelsFailed"
    /\ (op = "generate" /\ outcome.kind = "AllModelsFailed") =>
        /\ log # <<>> /\ AllRaised
        /\ Attempted = AttemptOrder
        /\ outcome.cause = log[1].model

\* the selected model and two fallbacks raised
C4_Witness ==
    /\ op = "generate" /\ outcome.kind = "AllModelsFailed"
    /\ Len(log) = 3
    /\ outcome.cause = model /\ log[3].model # model

\* C5: with the primary unavailable, _select_model returns the first model
\* of the fallback list whatever the query, and fails with the
\* no-model-available error when the list is empty; generate and
\* generate_stream then call no model.
C5_PrimaryUnavailable ==
    (pc # "idle" /\ ~is_available[primary_model]) =>
        IF fallback_models = <<>>
        THEN /\ pc = "done" /\ outcome.kind = "NoModelAvailable"
             /\ log = <<>> /\ chunks = <<>>
        ELSE /\ model = fallback_models[1]
             /\ outcome.kind # "NoModelAvailable"

\* a stream asked of a router without any available model
C5_Witness ==
    /\ op = "generate_stream" /\ pc = "done"
    /\ ~is_available[primary_model] /\ fallback_models = <<>>
    /\ outcome.kind = "NoModelAvailable" /\ log = <<>>

NoticeChunks == SelectSeq(chunks, LAMBDA c : c.type = "notice")
NoticesBefore(i) ==
    Cardinality({k \in 1..(i - 1) : chunks[k].type = "notice"})

\* C6: in generate_stream every fallback tried is announced by exactly one
\* notice chunk naming it, yielded before any of its chunks; no notice is
\* yielded when the selected model completes its stream.
C6_NoticePerFallback ==
    (op = "generate_stream" /\ log # <<>>) =>
        /\ Len(NoticeChunks) = Len(log) - 1
        /\ \A k \in 1..Len(NoticeChunks) : NoticeChunks[k].model = log[k + 1].model
        /\ \A i \in 1..Len(chunks) :
              chunks[i].type = "content" =>
                  /\ NoticesBefore(i) + 1 <= Len(log)
                  /\ chunks[i].model = log[NoticesBefore(i) + 1].model
        /\ log[1].status = "returned" => NoticeChunks = <<>>

\* two fallbacks were announced and the second one streamed a chunk
C6_Witness ==
    /\ op = "generate_stream" /\ Len(log) = 3
    /\ Len(chunks) = 3
    /\ chunks[1] = Notice(log[2].model)
    /\ chunks[2] = Notice(log[3].model)
    /\ chunks[3] = Content(log[3].model)

ErrorChunks == {i \in 1..Len(chunks) : chunks[i].type = "error"}

\* C7: once a model is selected generate_stream does not raise on model
\* failures: when the selected model and every eligible fallback failed the
\* stream ends normally, its last chunk the one error sentinel; when a model
\* completed its stream there is no sentinel and nothing after that model's
\* chunks.
C7_StreamEndsWithSentinel ==
    (op = "generate_stream" /\ log # <<>>) =>
        /\ pc # "done" => ErrorChunks = {}
        /\ pc = "done" =>
            /\ outcome = StreamEnded
            /\ IF AllRaised
               THEN /\ Attempted = AttemptOrder
                    /\ ErrorChunks = {Len(chunks)}
               ELSE /\ log[Len(log)].status = "returned"
                    /\ EarlierRaised
                    /\ ErrorChunks = {}
                    /\ chunks # <<>> =>
                          chunks[Len(chunks)].model = log[Len(log)].model

\* the selected model streamed a chunk and failed, so did the one fallback
C7_Witness ==
    /\ op = "generate_stream" /\ pc = "done"
    /\ Len(log) = 2 /\ AllRaised
    /\ Len(chunks) = 4
    /\ chunks[1].type = "content" /\ chunks[3].type = "content"
    /\ chunks[4] = ErrorSentinel

-----------------------------------------------------------------------------
(* Properties of a wrapper's generate (SpecWrapper) *)

Retryable == {APIConnectionError, RateLimitError, ConnectionError}
NonRetryable == {AuthenticationError, BadRequestError}

\* C8: a wrapper's generate makes at most 3 attempts, makes another attempt
\* only after a retryable failure (connection error, rate limit), and a
\* non-retryable failure (authentication, malformed request) ends the call
\* with an error at once: the attempt that met it is the call's last.
C8_RetryPolicy ==
    /\ Len(w_calls) <= 3
    /\ \A i \in 1..(Len(w_calls) - 1) : w_calls[i] \in Retryable
    /\ \A i \in 1..Len(w_calls) :
          w_calls[i] \in NonRetryable => (i = Len(w_calls) /\ w_pc = "raised")

-----------------------------------------------------------------------------
(* Text.  A str is the sequence of its characters, so that lower() and the  *)
(* `in` operator are computed character by character.                       *)

UpperLetters ==
    <<"A", "B", "C", "D", "E", "F", "G", "H", "I", "J", "K", "L", "M", "N",
      "O", "P", "Q", "R", "S", "T", "U", "V", "W", "X", "Y", "Z">>
LowerLetters ==
    <<"a", "b", "c", "d", "e", "f", "g", "h", "i", "j", "k", "l", "m", "n",
      "o", "p", "q", "r", "s", "t", "u", "v", "w", "x", "y", "z">>

\* str.lower() on one character, then on a str
LowerChar(c) ==
    IF \E i \in DOMAIN UpperLetters : UpperLetters[i] = c
    THEN LowerLetters[CHOOSE i \in DOMAIN UpperLetters : UpperLetters[i] = c]
    ELSE c
Lower(s) == [i \in 1..Len(s) |-> LowerChar(s[i])]

\* `keyword in content` on two str
In(keyword, content) ==
    \E i \in 1..(Len(content) - Len(keyword) + 1) :
        SubSeq(content, i, i + Len(keyword) - 1) = keyword

\* "I prefer dark mode interfaces"
TxtPreferDark ==
    <<"I", " ", "p", "r", "e", "f", "e", "r", " ", "d", "a", "r", "k", " ",
      "m", "o", "d", "e", " ", "i", "n", "t", "e", "r", "f", "a", "c", "e",
      "s">>
\* "My name is Alex"
TxtNameAlex ==
    <<"M", "y", " ", "n", "a", "m", "e", " ", "i", "s", " ", "A", "l", "e",
      "x">>
\* "I am a developer"
TxtIAm ==
    <<"I", " ", "a", "m", " ", "a", " ", "d", "e", "v", "e", "l", "o", "p",
      "e", "r">>
\* "I hate and dislike it"
TxtHateDislike ==
    <<"I", " ", "h", "a", "t", "e", " ", "a", "n", "d", " ", "d", "i", "s",
      "l", "i", "k", "e", " ", "i", "t">>
\* "I LIKE my job"
TxtLikeJob ==
    <<"I", " ", "L", "I", "K", "E", " ", "m", "y", " ", "j", "o", "b">>
\* "Hello"
TxtHello ==
    <<"H", "e", "l", "l", "o">>

-----------------------------------------------------------------------------
(* ContextRetrieval.extract_learning (retrieval.py).  SpecLearning builds a *)
(* conversation turn by turn and scans it.                                  *)

MaxTurns == 2         \* most messages of a scanned conversation

Users == {"alex", "sam"}
Roles == {"user", "assistant"}
Contents == {TxtPreferDark, TxtNameAlex, TxtIAm, TxtHateDislike, TxtLikeJob,
             TxtHello}

preference_keywords ==
    << <<"p", "r", "e", "f", "e", "r">>,
       <<"l", "i", "k", "e">>,
       <<"f", "a", "v", "o", "r", "i", "t", "e">>,
       <<"h", "a", "t", "e">>,
       <<"d", "i", "s", "l", "i", "k", "e">> >>
fact_keywords ==
    << <<"m", "y", " ", "n", "a", "m", "e", " ", "i", "s">>,
       <<"I", " ", "a", "m">>,
       <<"I", "'", "m">>,
       <<"I", " ", "l", "i", "v", "e">>,
       <<"m", "y", " ", "j", "o", "b">>,
       <<"m", "y", " ", "e", "m", "a", "i", "l">> >>

NoExtract == [messages |-> <<>>, user_id |-> None]

\* the dict appended to learnings, lines 172-182 and 188-198
Learning(user_id, memory_type, message, keyword) ==
    [user_id |-> user_id, memory_type |-> memory_type,
     content |-> message.content, message_id |-> message.message_id,
     keyword |-> keyword]

\* every keyword found appends, the loop never breaks
RECURSIVE KeywordLoopNoBreak(_, _, _)
KeywordLoopNoBreak(keywords, k, content) ==
    IF k > Len(keywords) THEN <<>>
    ELSE (IF In(keywords[k], content) THEN <<keywords[k]>> ELSE <<>>)
         \o KeywordLoopNoBreak(keywords, k + 1, content)

\* `for keyword in keywords: if keyword in content: append; break` from
\* position k on: the keywords the loop appends a learning for
RECURSIVE KeywordLoopBreak(_, _, _)
KeywordLoopBreak(keywords, k, content) ==
    IF k > Len(keywords) THEN <<>>
    ELSE IF In(keywords[k], content) THEN <<keywords[k]>>
    ELSE KeywordLoopBreak(keywords, k + 1, content)

\* the body of the loop over conversation.messages, lines 164-199
MessageLearnings(message, user_id) ==
    IF message.role # "user" THEN <<>>
    ELSE LET content == Lower(message.content)
             prefs == KeywordLoopBreak(preference_keywords, 1, content)
             facts == KeywordLoopBreak(fact_keywords, 1, content)
         IN  [i \in 1..Len(prefs) |->
                 Learning(user_id, "preference", message, prefs[i])]
             \o [i \in 1..Len(facts) |->
                 Learning(user_id, "fact", message, facts[i])]

RECURSIVE ExtractFrom(_, _, _)
ExtractFrom(turns, i, user_id) ==
    IF i > Len(turns) THEN <<>>
    ELSE MessageLearnings(turns[i], user_id)
         \o ExtractFrom(turns, i + 1, user_id)

extract_learning(turns, user_id) == ExtractFrom(turns, 1, user_id)

InitLearning ==
    /\ RouterDefault /\ ComplexityIdle /\ WrapperIdle /\ RestIdle
    /\ LearningIdle /\ MemoryIdle /\ StoreIdle

\* conversation.add_message(Message(role, content)); the message identifier
\* is fresh, here the position of the message
AddTurn(role, content) ==
    /\ Len(conversation) < MaxTurns
    /\ conversation' = Append(conversation,
           [message_id |-> Len(conversation) + 1, role |-> role,
            content |-> content])
    /\ UNCHANGED <<learned_from, learnings>>
    /\ UNCHANGED <<routerVars, complexityVars, wrapperVars, memoryVars,
                   storeVars, restVars>>

ExtractLearning(user_id) ==
    /\ conversation # <<>>
    /\ learned_from' = [messages |-> conversation, user_id |-> user_id]
    /\ learnings' = extract_learning(conversation, user_id)
    /\ UNCHANGED conversation
    /\ UNCHANGED <<routerVars, complexityVars, wrapperVars, memoryVars,
                   storeVars, restVars>>

\* a new conversation is started
NewConversation ==
    /\ conversation # <<>>
    /\ conversation' = <<>> /\ learned_from' = NoExtract /\ learnings' = <<>>
    /\ UNCHANGED <<routerVars, complexityVars, wrapperVars, memoryVars,
                   storeVars, restVars>>

NextLearning ==
    \/ \E role \in Roles : \E content \in Contents : AddTurn(role, content)
    \/ \E user_id \in Users : ExtractLearning(user_id)
    \/ NewConversation

SpecLearning == InitLearning /\ [][NextLearning]_vars


-----------------------------------------------------------------------------
(* Claims about extract_learning *)

PreferencePhrases ==
    << <<"p", "r", "e", "f", "e", "r">>,
       <<"l", "i", "k", "e">>,
       <<"f", "a", "v", "o", "r", "i", "t", "e">>,
       <<"h", "a", "t", "e">>,
       <<"d", "i", "s", "l", "i", "k", "e">> >>
FactPhrases ==
    << <<"m", "y", " ", "n", "a", "m", "e", " ", "i", "s">>,
       <<"I", " ", "a", "m">>,
       <<"I", "'", "m">>,
       <<"I", " ", "l", "i", "v", "e">>,
       <<"m", "y", " ", "j", "o", "b">>,
       <<"m", "y", " ", "e", "m", "a", "i", "l">> >>

Phrases(memory_type) ==
    IF memory_type = "preference" THEN PreferencePhrases ELSE FactPhrases

\* phrase occurs in text, character for character
OccursIn(phrase, text) ==
    \E i \in 0..Len(text) :
        /\ i + Len(phrase) <= Len(text)
        /\ \A j \in 1..Len(phrase) : text[i + j] = phrase[j]

\* the phrases of a set found in the lowercased text, by position in the set
MatchingPhrases(memory_type, text) ==
    {k \in DOMAIN Phrases(memory_type) :
        OccursIn(Phrases(memory_type)[k], Lower(text))}

\* the records of one type that learnings holds for one message
RecordsOf(message, memory_type) ==
    {i \in DOMAIN learnings :
        /\ learnings[i].message_id = message.message_id
        /\ learnings[i].memory_type = memory_type}

\* C11: extract_learning emits records only for user-role turns, for each
\* user turn at most one preference record and at most one fact record, the
\* record tagged with the first keyword of its set that matches; an
\* assistant turn with the text of a user turn contributes no record.
C11_OnePerSetPerUserTurn ==
    LET turns == learned_from.messages IN
    /\ \A i \in DOMAIN learnings :
          /\ learnings[i].memory_type \in {"preference", "fact"}
          /\ learnings[i].user_id = learned_from.user_id
          /\ \E j \in DOMAIN turns :
                /\ turns[j].message_id = learnings[i].message_id
                /\ turns[j].role = "user"
                /\ turns[j].content = learnings[i].content
    /\ \A j \in DOMAIN turns : \A t \in {"preference", "fact"} :
          /\ Cardinality(RecordsOf(turns[j], t)) <= 1
          /\ \A i \in RecordsOf(turns[j], t) :
                LET found == MatchingPhrases(t, turns[j].content) IN
                /\ found # {}
                /\ learnings[i].keyword =
                       Phrases(t)[CHOOSE k \in found : \A l \in found : k <= l]

\* the spec's example (a user turn and an assistant turn with the same text
\* give one preference record, from the user turn) after a scan
C11_Witness ==
    /\ Len(learned_from.messages) = 2
    /\ learned_from.messages[1].role = "user"
    /\ learned_from.messages[2].role = "assistant"
    /\ learned_from.messages[1].content = TxtPreferDark
    /\ learned_from.messages[2].content = TxtPreferDark
    /\ Len(learnings) = 1
    /\ learnings[1].memory_type = "preference"
    /\ learnings[1].message_id = 1

\* C12: every user turn whose content contains a fact phrase yields exactly
\* one fact record, and every user turn whose content contains a preference
\* phrase yields exactly one preference record.
C12_RecordForEveryPhrase ==
    \A j \in DOMAIN learned_from.messages :
        LET message == learned_from.messages[j] IN
        message.role = "user" =>
            \A t \in {"preference", "fact"} :
                (\E k \in DOMAIN Phrases(t) :
                     OccursIn(Phrases(t)[k], message.content))
                => Cardinality(RecordsOf(message, t)) = 1

-----------------------------------------------------------------------------
(* MemoryPersistence (persistence.py): the episodic_memory table of the     *)
(* structured store, the collections of the vector store behind the        *)
(* clients of vector_db.py, and ContextRetrieval.save_learnings.  A call    *)
(* is one step; whether a store answers a call is chosen at the call.      *)

MaxRecords == 2       \* most rows of table episodic_memory
MaxDocuments == 1     \* most documents of the knowledge collection

DefaultSearchLimit == 5
max_episodic_results == 3

QName ==
    <<"n", "a", "m", "e">>
QDarkMode ==
    <<"d", "a", "r", "k", " ", "m", "o", "d", "e">>
TxtKnowledge ==
    <<"D", "a", "r", "k", " ", "m", "o", "d", "e", " ", "s", "a", "v", "e",
      "s", " ", "p", "o", "w", "e", "r">>

Queries == {QName, QDarkMode}
SearchLimits == {1, DefaultSearchLimit}

Turn(message_id, role, content) ==
    [message_id |-> message_id, role |-> role, content |-> content]

\* conversations whose learnings are saved
ScannedConversations ==
    { <<Turn(1, "user", TxtNameAlex)>>,
      <<Turn(1, "user", TxtNameAlex), Turn(2, "user", TxtPreferDark)>>,
      <<Turn(1, "user", TxtHello), Turn(2, "assistant", TxtNameAlex)>> }

\* which stores answer during one add: the structured store, the vector store
Faults ==
    {f \in [sql : BOOLEAN, vector : BOOLEAN] : vector_db_client \/ f.vector}

SetMax(S) == CHOOSE x \in S : \A y \in S : y <= x

\* the stores and the results of a call in progress
Stores ==
    [episodic_memory |-> episodic_memory, vector_store |-> vector_store,
     log |-> <<>>, result |-> <<>>, memory_ids |-> <<>>]

\* str(uuid.uuid4()): an identifier that no store holds
uuid4(st) ==
    SetMax({0}
        \cup {st.episodic_memory[i].memory_id : i \in DOMAIN st.episodic_memory}
        \cup {st.vector_store.knowledge[i].id :
                 i \in DOMAIN st.vector_store.knowledge}
        \cup {st.vector_store.episodic_memory[i].id :
                 i \in DOMAIN st.vector_store.episodic_memory}) + 1

\* one call of a store, as the log of a persistence call keeps it
StoreCall(store, index, id, ok) ==
    [store |-> store, index |-> index, id |-> id, ok |-> ok]

\* ChromaDBClient.insert / PineconeClient.insert: the document is added, or
\* the error is logged and swallowed (the client returns [], never raises)
VectorInsert(store, collection_name, doc, ok) ==
    IF ok THEN [store EXCEPT ![collection_name] = Append(@, doc)] ELSE store

\* the mirror write is attempted whatever the structured write did
add_episodic_memory_mirror_always(st, record, index, f) ==
    LET memory_id == uuid4(st)
        row == [memory_id |-> memory_id, user_id |-> record.user_id,
                memory_type |-> record.memory_type,
                content |-> record.content,
                timestamp |-> Len(st.episodic_memory) + 1]
        doc == [id |-> memory_id, text |-> record.content,
                metadata |-> [user_id |-> record.user_id,
                              memory_type |-> record.memory_type]]
    IN  [st EXCEPT
            !.episodic_memory = IF f.sql THEN Append(@, row) ELSE @,
            !.vector_store = VectorInsert(@, "episodic_memory", doc, f.vector),
            !.result = IF f.sql THEN <<memory_id>> ELSE <<>>,
            !.log = @ \o <<StoreCall("structured", index, memory_id, f.sql),
                           StoreCall("vector", index, memory_id, f.vector)>>]

\* add_episodic_memory, lines 389-432.  INSERT and commit; an error there
\* goes to the except clause (return None).  Then, with a vector client,
\* the insert into collection episodic_memory, whose failure the client
\* swallows; the memory id is returned.  result is <<>> for None.
add_episodic_memory(st, record, index, f) ==
    LET memory_id == uuid4(st)
        row == [memory_id |-> memory_id, user_id |-> record.user_id,
                memory_type |-> record.memory_type,
                content |-> record.content,
                timestamp |-> Len(st.episodic_memory) + 1]
        doc == [id |-> memory_id, text |-> record.content,
                metadata |-> [user_id |-> record.user_id,
                              memory_type |-> record.memory_type]]
    IN  IF ~f.sql
        THEN [st EXCEPT
                !.result = <<>>,
                !.log = @ \o <<StoreCall("structured", index, memory_id, FALSE)>>]
        ELSE IF vector_db_client
        THEN [st EXCEPT
                !.episodic_memory = Append(@, row),
                !.vector_store = VectorInsert(@, "episodic_memory", doc, f.vector),
                !.result = <<memory_id>>,
                !.log = @ \o <<StoreCall("structured", index, memory_id, TRUE),
                               StoreCall("vector", index, memory_id, f.vector)>>]
        ELSE [st EXCEPT
                !.episodic_memory = Append(@, row),
                !.result = <<memory_id>>,
                !.log = @ \o <<StoreCall("structured", index, memory_id, TRUE)>>]

\* the loop gives up at the first write that fails
RECURSIVE SaveLoopStopsAtFailure(_, _, _, _)
SaveLoopStopsAtFailure(st, records, i, faults) ==
    IF i > Len(records) THEN st
    ELSE LET r == add_episodic_memory(st, records[i], i, faults[i])
         IN  IF r.result = <<>> THEN r
             ELSE SaveLoopStopsAtFailure(
                      [r EXCEPT !.memory_ids = @ \o r.result],
                      records, i + 1, faults)

\* save_learnings, lines 215-224: the loop over learnings from position i
RECURSIVE SaveLoop(_, _, _, _)
SaveLoop(st, records, i, faults) ==
    IF i > Len(records) THEN st
    ELSE LET r == add_episodic_memory(st, records[i], i, faults[i])
         IN  SaveLoop(
                 [r EXCEPT !.memory_ids =
                      IF r.result # <<>> THEN @ \o r.result ELSE @],
                 records, i + 1, faults)

save_learnings(records, faults) == SaveLoop(Stores, records, 1, faults)

\* SQLite LIKE '%query%' (case-insensitive on ASCII letters)
Like(query_, content) == In(Lower(query_), Lower(content))

\* ORDER BY timestamp DESC
RECURSIVE OrderByTimestampDesc(_)
OrderByTimestampDesc(rows) ==
    IF rows = <<>> THEN <<>>
    ELSE LET i == CHOOSE i \in DOMAIN rows :
                     \A j \in DOMAIN rows :
                         rows[j].timestamp <= rows[i].timestamp
         IN  <<rows[i]>>
             \o OrderByTimestampDesc(SubSeq(rows, 1, i - 1)
                                     \o SubSeq(rows, i + 1, Len(rows)))

\* LIMIT ?
Limit(rows, limit) == SubSeq(rows, 1, Min(limit, Len(rows)))

\* the dict built from a row, lines 496-506
RowResult(row) ==
    [id |-> row.memory_id, text |-> row.content,
     metadata |-> [user_id |-> row.user_id, memory_type |-> row.memory_type]]

\* the search is not scoped to the user
SqlSearchAnyUser(user_id, query_, limit) ==
    LET Matches(row) == Like(query_, row.content)
        rows == Limit(OrderByTimestampDesc(SelectSeq(episodic_memory, Matches)),
                      limit)
    IN  [i \in 1..Len(rows) |-> RowResult(rows[i])]

\* the SQL search of search_episodic_memory, lines 473-508 (memory_type None)
SqlSearch(user_id, query_, limit) ==
    LET Matches(row) == row.user_id = user_id /\ Like(query_, row.content)
        rows == Limit(OrderByTimestampDesc(SelectSeq(episodic_memory, Matches)),
                      limit)
    IN  [i \in 1..Len(rows) |-> RowResult(rows[i])]

\* ChromaDBClient.search / PineconeClient.search: the limit nearest documents
\* that pass the filter, in the order of the index's ranking (any order
\* here), or [] when the store fails (the client swallows the error)
VectorSearch(collection_name, filter_user, limit, ok) ==
    IF ~ok THEN {<<>>}
    ELSE LET Passes(doc) == filter_user = None \/ doc.metadata.user_id = filter_user
             docs == SelectSeq(vector_store[collection_name], Passes)
             k == Min(limit, Len(docs))
         IN  {[i \in 1..k |-> docs[p[i]]] :
                 p \in {q \in [1..k -> 1..Len(docs)] :
                           \A a, b \in 1..k : a # b => q[a] # q[b]}}

\* search_episodic_memory, lines 457-511: the results it may return.  With a
\* vector client the vector search answers (its errors never reach the
\* except clause of line 469); without one the SQL search does, [] on error
search_episodic_memory(user_id, query_, limit, ok) ==
    IF vector_db_client
    THEN VectorSearch("episodic_memory", user_id, limit, ok)
    ELSE {IF ok THEN SqlSearch(user_id, query_, limit) ELSE <<>>}

\* the characters of a role or of a memory type
StrFact ==
    <<"f", "a", "c", "t">>
StrPreference ==
    <<"p", "r", "e", "f", "e", "r", "e", "n", "c", "e">>
StrUser ==
    <<"u", "s", "e", "r">>
StrAssistant ==
    <<"a", "s", "s", "i", "s", "t", "a", "n", "t">>
Chars(s) ==
    CASE s = "fact" -> StrFact
      [] s = "preference" -> StrPreference
      [] s = "user" -> StrUser
      [] s = "assistant" -> StrAssistant

\* str.capitalize(): the first character upper case, the rest lower case
UpperChar(c) ==
    IF \E i \in DOMAIN LowerLetters : LowerLetters[i] = c
    THEN UpperLetters[CHOOSE i \in DOMAIN LowerLetters : LowerLetters[i] = c]
    ELSE c
Capitalize(s) ==
    IF s = <<>> THEN <<>> ELSE <<UpperChar(s[1])>> \o Lower(Tail(s))

\* sep.join(parts)
RECURSIVE Join(_, _)
Join(sep, parts) ==
    IF parts = <<>> THEN <<>>
    ELSE IF Len(parts) = 1 THEN parts[1]
    ELSE parts[1] \o sep \o Join(sep, Tail(parts))

BlankLine == <<"\n", "\n">>
UserInformation ==
    <<"U", "s", "e", "r", " ", "I", "n", "f", "o", "r", "m", "a", "t", "i",
      "o", "n", ":">>

\* get_episodic_context, lines 106-115, on the results of the search
FormatEpisodic(results) ==
    IF results = <<>> THEN <<>>
    ELSE Join(BlankLine,
              <<UserInformation>>
              \o [i \in 1..Len(results) |->
                     Capitalize(Chars(results[i].metadata.memory_type))
                     \o <<":", " ">> \o results[i].text])

Range(s) == {s[i] : i \in DOMAIN s}

InitMemory ==
    /\ RouterDefault /\ ComplexityIdle /\ WrapperIdle /\ RestIdle /\ LearningIdle
    /\ StoreIdle
    /\ vector_db_client \in BOOLEAN
    /\ episodic_memory = <<>>
    /\ vector_store = [knowledge |-> <<>>, episodic_memory |-> <<>>]
    /\ acked = {} /\ ret = [op |-> "none"]

\* learnings = extract_learning(conversation, user_id); save_learnings(learnings)
SaveLearnings(turns, user_id) ==
    LET records == extract_learning(turns, user_id) IN
    /\ Len(episodic_memory) + Len(records) <= MaxRecords
    /\ \E faults \in [1..Len(records) -> Faults] :
          LET r == save_learnings(records, faults) IN
          /\ episodic_memory' = r.episodic_memory
          /\ vector_store' = r.vector_store
          /\ acked' = acked \cup Range(r.memory_ids)
          /\ ret' = [op |-> "save_learnings", records |-> records,
                     before |-> Len(episodic_memory), log |-> r.log,
                     memory_ids |-> r.memory_ids]
    /\ UNCHANGED vector_db_client
    /\ UNCHANGED <<routerVars, complexityVars, wrapperVars, learningVars,
                   storeVars, restVars>>

\* POST /episodic (memory.py): one add_episodic_memory
AddEpisodicMemory(user_id, memory_type, content) ==
    LET record == [user_id |-> user_id, memory_type |-> memory_type,
                   content |-> content] IN
    /\ Len(episodic_memory) < MaxRecords
    /\ \E f \in Faults :
          LET r == add_episodic_memory(Stores, record, 1, f) IN
          /\ episodic_memory' = r.episodic_memory
          /\ vector_store' = r.vector_store
          /\ acked' = acked \cup Range(r.result)
          /\ ret' = [op |-> "add_episodic_memory", records |-> <<record>>,
                     before |-> Len(episodic_memory), log |-> r.log,
                     memory_ids |-> r.result]
    /\ UNCHANGED vector_db_client
    /\ UNCHANGED <<routerVars, complexityVars, wrapperVars, learningVars,
                   storeVars, restVars>>

\* add_to_knowledge_base(texts=[text], metadata=[{user_id}]), lines 314-330:
\* [] without a vector client, else what the client's insert returns
AddToKnowledgeBase(text, user_id) ==
    /\ Len(vector_store.knowledge) < MaxDocuments
    /\ IF ~vector_db_client
       THEN /\ ret' = [op |-> "add_to_knowledge_base", ids |-> <<>>,
                       log |-> <<>>]
            /\ UNCHANGED vector_store
       ELSE \E ok \in BOOLEAN :
            LET id == uuid4(Stores)
                doc == [id |-> id, text |-> text,
                        metadata |-> [user_id |-> user_id]]
            IN  /\ vector_store' = VectorInsert(vector_store, "knowledge", doc, ok)
                /\ ret' = [op |-> "add_to_knowledge_base",
                           ids |-> IF ok THEN <<id>> ELSE <<>>,
                           log |-> <<StoreCall("vector", 1, id, ok)>>]
    /\ UNCHANGED <<vector_db_client, episodic_memory, acked>>
    /\ UNCHANGED <<routerVars, complexityVars, wrapperVars, learningVars,
                   storeVars, restVars>>

SearchEpisodicMemory(user_id, query_, limit) ==
    /\ \E ok \in BOOLEAN :
       \E results \in search_episodic_memory(user_id, query_, limit, ok) :
          ret' = [op |-> "search_episodic_memory", user_id |-> user_id,
                  query |-> query_, limit |-> limit, answered |-> ok,
                  results |-> results]
    /\ UNCHANGED <<vector_db_client, episodic_memory, vector_store, acked>>
    /\ UNCHANGED <<routerVars, complexityVars, wrapperVars, learningVars,
                   storeVars, restVars>>

\* get_episodic_context(user_id, query), lines 100-115
GetEpisodicContext(user_id, query_) ==
    /\ \E ok \in BOOLEAN :
       \E results \in search_episodic_memory(user_id, query_,
                                             max_episodic_results, ok) :
          ret' = [op |-> "get_episodic_context", user_id |-> user_id,
                  query |-> query_, limit |-> max_episodic_results,
                  answered |-> ok, context |-> FormatEpisodic(results)]
    /\ UNCHANGED <<vector_db_client, episodic_memory, vector_store, acked>>
    /\ UNCHANGED <<routerVars, complexityVars, wrapperVars, learningVars,
                   storeVars, restVars>>

NextMemory ==
    \/ \E turns \in ScannedConversations : SaveLearnings(turns, "alex")
    \/ AddEpisodicMemory("sam", "fact", TxtNameAlex)
    \/ AddToKnowledgeBase(TxtKnowledge, "alex")
    \/ \E user_id \in Users : \E query_ \in Queries : \E limit \in SearchLimits :
          SearchEpisodicMemory(user_id, query_, limit)
    \/ \E user_id \in Users : \E query_ \in Queries :
          GetEpisodicContext(user_id, query_)

SpecMemory == InitMemory /\ [][NextMemory]_vars

-----------------------------------------------------------------------------
(* Claims about episodic memory and the knowledge base *)

StructuredCalls(calls) ==
    LET IsStructured(c) == c.store = "structured" IN SelectSeq(calls, IsStructured)

Committed(calls) ==
    LET IsCommitted(c) == c.store = "structured" /\ c.ok IN
    SelectSeq(calls, IsCommitted)

\* C13: save_learnings attempts the episodic write of each record once, in
\* input order, goes on after a failed write, and returns the identifiers of
\* exactly the records that are in the structured store after the call, in
\* input order.
C13_SaveLearningsReturnsPersisted ==
    ret.op = "save_learnings" =>
        LET attempts == StructuredCalls(ret.log)
            done == Committed(ret.log)
            added == SubSeq(episodic_memory, ret.before + 1, Len(episodic_memory))
        IN  /\ Len(attempts) = Len(ret.records)
            /\ \A i \in DOMAIN attempts : attempts[i].index = i
            /\ Len(added) = Len(done)
            /\ Len(ret.memory_ids) = Len(done)
            /\ \A j \in DOMAIN done :
                  /\ ret.memory_ids[j] = added[j].memory_id
                  /\ added[j].content = ret.records[done[j].index].content
                  /\ added[j].user_id = ret.records[done[j].index].user_id
                  /\ added[j].memory_type = ret.records[done[j].index].memory_type
            /\ \A j, k \in DOMAIN added :
                  j # k => added[j].memory_id # added[k].memory_id

\* two learnings saved, the first write failed, the second persisted
C13_Witness ==
    /\ ret.op = "save_learnings"
    /\ Len(ret.records) = 2
    /\ ~StructuredCalls(ret.log)[1].ok
    /\ Len(ret.memory_ids) = 1
    /\ episodic_memory[Len(episodic_memory)].content = ret.records[2].content

OtherMatches(row, query_) ==
    {i \in DOMAIN episodic_memory :
        /\ episodic_memory[i].memory_id # row.memory_id
        /\ episodic_memory[i].user_id = row.user_id
        /\ OccursIn(query_, episodic_memory[i].content)}

\* the acknowledged records a search of user_id for query_ has to return
Expected(user_id, query_, limit) ==
    {i \in DOMAIN episodic_memory :
        /\ episodic_memory[i].memory_id \in acked
        /\ episodic_memory[i].user_id = user_id
        /\ OccursIn(query_, episodic_memory[i].content)
        /\ Cardinality(OtherMatches(episodic_memory[i], query_)) < limit}

Found(row, results) ==
    \E k \in DOMAIN results :
        results[k].id = row.memory_id /\ results[k].text = row.content

C15_StructuredThenMirror ==
    ret.op \in {"save_learnings", "add_episodic_memory"} =>
        \A p \in DOMAIN ret.log :
            ret.log[p].store = "vector" =>
                /\ p > 1
                /\ ret.log[p - 1].store = "structured"
                /\ ret.log[p - 1].ok
                /\ ret.log[p - 1].index = ret.log[p].index
                /\ ret.log[p - 1].id = ret.log[p].id
                /\ \E i \in DOMAIN episodic_memory :
                      episodic_memory[i].memory_id = ret.log[p].id

\* a mirror write failed after its structured write, and the row is there
C15_Witness ==
    /\ ret.op \in {"save_learnings", "add_episodic_memory"}
    /\ \E p \in DOMAIN ret.log :
          /\ ret.log[p].store = "vector" /\ ~ret.log[p].ok
          /\ \E i \in DOMAIN episodic_memory :
                episodic_memory[i].memory_id = ret.log[p].id
          /\ \A i \in DOMAIN vector_store.episodic_memory :
                vector_store.episodic_memory[i].id # ret.log[p].id

\* C16: every knowledge document add_to_knowledge_base returns the identifier
\* of is in the structured store and in the vector store, the structured
\* write having been attempted before the vector write.
C16_KnowledgeInBothStores ==
    ret.op = "add_to_knowledge_base" =>
        \A i \in DOMAIN ret.ids :
            /\ \E d \in DOMAIN vector_store.knowledge :
                  vector_store.knowledge[d].id = ret.ids[i]
            /\ \E p, q \in DOMAIN ret.log :
                  /\ p < q
                  /\ ret.log[p].store = "structured" /\ ret.log[p].ok
                  /\ ret.log[p].id = ret.ids[i]
                  /\ ret.log[q].store = "vector" /\ ret.log[q].id = ret.ids[i]

-----------------------------------------------------------------------------
(* MemoryPersistence (persistence.py): save_conversation and                *)
(* load_conversation, and the endpoints of conversation.py that write a     *)
(* conversation.  SpecStore runs two requests on one conversation; a        *)
(* request yields at its awaits, and a save is one transaction.            *)

MaxMessages == 6      \* most messages created

ConversationId == "c1"
NewTitle == "New Conversation"
UserText == TxtNameAlex
AssistantText == TxtHello

\* Conversation(title=...): a conversation without messages
Conversation(title) ==
    [conversation_id |-> ConversationId, title |-> title, updated_at |-> clock,
     messages |-> <<>>]

\* Message(role, content): a fresh message_id, timestamp utcnow()
Message(role, content) ==
    [message_id |-> clock + 1, role |-> role, content |-> content,
     timestamp |-> clock + 1]

\* Conversation.add_message: the message is appended, updated_at bumped
add_message(c, message) ==
    [c EXCEPT !.messages = Append(@, message), !.updated_at = message.timestamp]

Database == [conversations |-> conversations, messages |-> messages]

\* INSERT OR REPLACE INTO conversations, lines 118-131
InsertOrReplaceConversation(rows, c) ==
    {row \in rows : row.conversation_id # c.conversation_id}
    \cup {[conversation_id |-> c.conversation_id, title |-> c.title,
           updated_at |-> c.updated_at]}

\* plain INSERT: the row is added whatever the table holds
InsertMessage(rows, c, message) ==
    Append(rows,
           [message_id |-> message.message_id,
            conversation_id |-> c.conversation_id, role |-> message.role,
            content |-> message.content, timestamp |-> message.timestamp])

\* INSERT OR REPLACE INTO messages, lines 135-149: the row of the same
\* message_id, if any, is deleted and the new row added
InsertOrReplaceMessage(rows, c, message) ==
    LET Other(row) == row.message_id # message.message_id IN
    Append(SelectSeq(rows, Other),
           [message_id |-> message.message_id,
            conversation_id |-> c.conversation_id, role |-> message.role,
            content |-> message.content, timestamp |-> message.timestamp])

\* for message in conversation.messages, from position i on
RECURSIVE SaveMessages(_, _, _)
SaveMessages(rows, c, i) ==
    IF i > Len(c.messages) THEN rows
    ELSE SaveMessages(InsertOrReplaceMessage(rows, c, c.messages[i]), c, i + 1)

\* save_conversation, lines 115-157: the database after the call; an error
\* before the commit leaves it as it was (the call returns False)
save_conversation(db, c, ok) ==
    IF ok
    THEN [conversations |-> InsertOrReplaceConversation(db.conversations, c),
          messages |-> SaveMessages(db.messages, c, 1)]
    ELSE db

\* ORDER BY timestamp (rows of equal timestamp in rowid order)
RECURSIVE OrderByTimestamp(_)
OrderByTimestamp(rows) ==
    IF rows = <<>> THEN <<>>
    ELSE LET i == CHOOSE i \in DOMAIN rows :
                     /\ \A j \in DOMAIN rows :
                           rows[i].timestamp <= rows[j].timestamp
                     /\ \A j \in 1..(i - 1) :
                           rows[j].timestamp # rows[i].timestamp
         IN  <<rows[i]>>
             \o OrderByTimestamp(SubSeq(rows, 1, i - 1)
                                 \o SubSeq(rows, i + 1, Len(rows)))

\* load_conversation, lines 172-214: None (NoConversation) on an error or
\* without a row, else the row with the messages of the conversation
load_conversation(db, conversation_id, ok) ==
    IF ~ok \/ ~\E row \in db.conversations : row.conversation_id = conversation_id
    THEN NoConversation
    ELSE LET row == CHOOSE row \in db.conversations :
                       row.conversation_id = conversation_id
             Mine(m) == m.conversation_id = conversation_id
             rows == OrderByTimestamp(SelectSeq(db.messages, Mine))
         IN  [conversation_id |-> row.conversation_id, title |-> row.title,
              updated_at |-> row.updated_at,
              messages |-> [i \in 1..Len(rows) |->
                               [message_id |-> rows[i].message_id,
                                role |-> rows[i].role,
                                content |-> rows[i].content,
                                timestamp |-> rows[i].timestamp]]]

InitStore ==
    /\ RouterDefault /\ ComplexityIdle /\ WrapperIdle /\ RestIdle
    /\ LearningIdle /\ MemoryIdle /\ StoreIdle

\* messages created, and those the requests in progress will create
Budget ==
    clock + Cardinality({r \in Requests :
                            requests[r].pc \in {"generating", "streaming"}})

\* the save of request r's conversation c, after which r is at pc
Commit(r, c, ok, pc_) ==
    LET db == save_conversation(Database, c, ok) IN
    /\ conversations' = db.conversations
    /\ messages' = db.messages
    /\ last_commit' = IF ok THEN [conversation |-> c,
                                  concurrent |-> requests[r].stale]
                      ELSE last_commit
    /\ requests' = [q \in Requests |->
          IF q = r
          THEN [pc |-> pc_,
                conversation |-> IF pc_ = "idle" THEN NoConversation ELSE c,
                stale |-> IF pc_ = "idle" THEN FALSE ELSE requests[r].stale]
          ELSE IF ok /\ requests[q].pc # "idle"
          THEN [requests[q] EXCEPT !.stale = TRUE]
          ELSE requests[q]]

\* create_conversation, conversation.py lines 87-93
CreateConversation(r) ==
    /\ requests[r].pc = "idle"
    /\ conversations = {}
    /\ \E ok \in BOOLEAN : Commit(r, Conversation(NewTitle), ok, "idle")
    /\ UNCHANGED <<clock, response>>
    /\ UNCHANGED <<routerVars, complexityVars, wrapperVars, learningVars,
                   memoryVars, restVars>>

\* send_message, lines 191-206: load, 404 without a conversation, else the
\* user message is added; the request then awaits context and model
SendMessage(r) ==
    /\ requests[r].pc = "idle"
    /\ Budget + 2 <= MaxMessages
    /\ \E ok \in BOOLEAN :
          LET c == load_conversation(Database, ConversationId, ok) IN
          /\ c # NoConversation
          /\ requests' = [requests EXCEPT ![r] =
                 [pc |-> "generating",
                  conversation |-> add_message(c, Message("user", UserText)),
                  stale |-> FALSE]]
    /\ clock' = clock + 1
    /\ UNCHANGED <<conversations, messages, last_commit, response>>
    /\ UNCHANGED <<routerVars, complexityVars, wrapperVars, learningVars,
                   memoryVars, restVars>>

\* send_message, lines 232-240: the model has answered and the assistant
\* message is added; the request then awaits the save
SendMessageDone(r) ==
    /\ requests[r].pc = "generating"
    /\ requests' = [requests EXCEPT ![r] =
           [@ EXCEPT !.pc = "saving",
                     !.conversation =
                         add_message(@, Message("assistant", AssistantText))]]
    /\ clock' = clock + 1
    /\ UNCHANGED <<conversations, messages, last_commit, response>>
    /\ UNCHANGED <<routerVars, complexityVars, wrapperVars, learningVars,
                   memoryVars, restVars>>

\* send_message, lines 243-257: the conversation is saved, the result of
\* the save is not looked at, and the assistant message is returned
SendMessageSave(r) ==
    /\ requests[r].pc = "saving"
    /\ \E ok \in BOOLEAN :
          /\ Commit(r, requests[r].conversation, ok, "idle")
          /\ response' = [status |-> 200, saved |-> ok]
    /\ UNCHANGED clock
    /\ UNCHANGED <<routerVars, complexityVars, wrapperVars, learningVars,
                   memoryVars, restVars>>

\* websocket_conversation, lines 363-370: the conversation is loaded once
WebsocketConnect(r) ==
    /\ requests[r].pc = "idle"
    /\ \E ok \in BOOLEAN :
          LET c == load_conversation(Database, ConversationId, ok) IN
          /\ c # NoConversation
          /\ requests' = [requests EXCEPT ![r] =
                 [pc |-> "open", conversation |-> c, stale |-> FALSE]]
    /\ UNCHANGED <<conversations, messages, clock, last_commit, response>>
    /\ UNCHANGED <<routerVars, complexityVars, wrapperVars, learningVars,
                   memoryVars, restVars>>

\* websocket_conversation, lines 373-387: a message is received and added
WebsocketReceive(r) ==
    /\ requests[r].pc = "open"
    /\ Budget + 2 <= MaxMessages
    /\ requests' = [requests EXCEPT ![r] =
           [@ EXCEPT !.pc = "streaming",
                     !.conversation = add_message(@, Message("user", UserText))]]
    /\ clock' = clock + 1
    /\ UNCHANGED <<conversations, messages, last_commit, response>>
    /\ UNCHANGED <<routerVars, complexityVars, wrapperVars, learningVars,
                   memoryVars, restVars>>

\* websocket_conversation, lines 426-433: the streamed response is added;
\* the handler then awaits the save
WebsocketDone(r) ==
    /\ requests[r].pc = "streaming"
    /\ requests' = [requests EXCEPT ![r] =
           [@ EXCEPT !.pc = "ws_saving",
                     !.conversation =
                         add_message(@, Message("assistant", AssistantText))]]
    /\ clock' = clock + 1
    /\ UNCHANGED <<conversations, messages, last_commit, response>>
    /\ UNCHANGED <<routerVars, complexityVars, wrapperVars, learningVars,
                   memoryVars, restVars>>

\* websocket_conversation, line 436: the conversation is saved; the socket
\* stays open with the same object
WebsocketSave(r) ==
    /\ requests[r].pc = "ws_saving"
    /\ \E ok \in BOOLEAN : Commit(r, requests[r].conversation, ok, "open")
    /\ UNCHANGED <<clock, response>>
    /\ UNCHANGED <<routerVars, complexityVars, wrapperVars, learningVars,
                   memoryVars, restVars>>

\* WebSocketDisconnect
WebsocketDisconnect(r) ==
    /\ requests[r].pc = "open"
    /\ requests' = [requests EXCEPT ![r] =
           [pc |-> "idle", conversation |-> NoConversation, stale |-> FALSE]]
    /\ UNCHANGED <<conversations, messages, clock, last_commit, response>>
    /\ UNCHANGED <<routerVars, complexityVars, wrapperVars, learningVars,
                   memoryVars, restVars>>

NextStore ==
    \E r \in Requests :
        \/ CreateConversation(r)
        \/ SendMessage(r)
        \/ SendMessageDone(r)
        \/ SendMessageSave(r)
        \/ WebsocketConnect(r)
        \/ WebsocketReceive(r)
        \/ WebsocketDone(r)
        \/ WebsocketSave(r)
        \/ WebsocketDisconnect(r)

SpecStore == InitStore /\ [][NextStore]_vars

-----------------------------------------------------------------------------
(* Claims about save_conversation and load_conversation *)

Stored == load_conversation(Database, ConversationId, TRUE)

MessageIds(c) == [i \in 1..Len(c.messages) |-> c.messages[i].message_id]

\* C17: round trip: save_conversation(c) followed by load_conversation of
\* c's id returns a conversation with c's title, as many messages as c, and
\* the messages in c's order.
C17_RoundTrip ==
    last_commit.conversation # NoConversation =>
        /\ Stored.title = last_commit.conversation.title
        /\ Len(Stored.messages) = Len(last_commit.conversation.messages)
        /\ MessageIds(Stored) = MessageIds(last_commit.conversation)

StoredMessages(db) ==
    LET Mine(m) == m.conversation_id = ConversationId IN
    Len(SelectSeq(db.messages, Mine))

\* C18: idempotence: a second save_conversation of the same conversation,
\* its messages unchanged, leaves the stored state as the first call left
\* it; the stored message count is unchanged.
C18_SaveIdempotent ==
    \A r \in Requests :
        requests[r].conversation # NoConversation =>
            LET c == requests[r].conversation
                once == save_conversation(Database, c, TRUE)
                twice == save_conversation(once, c, TRUE)
            IN  /\ twice = once
                /\ StoredMessages(twice) = StoredMessages(once)
                /\ StoredMessages(once) >= Len(c.messages)

\* a request holds a conversation of which the store has a message already
C18_Witness ==
    \E r \in Requests :
        /\ Len(requests[r].conversation.messages) >= 3
        /\ \E i \in DOMAIN messages :
              messages[i].message_id
                  = requests[r].conversation.messages[1].message_id

\* C20: two requests having written the conversation concurrently (each
\* loaded it, added its messages and saved, the steps interleaved), the
\* stored conversation, row and message list as load_conversation returns
\* them, is the conversation the last committer saved, not a mixture.
C20_LastWriteWins ==
    last_commit.concurrent => Stored = last_commit.conversation

\* C21: whatever the interleaving of message appends and saves, the
\* conversation load_conversation returns has updated_at at or after the
\* timestamp of each of its messages.
C21_UpdatedAtCoversMessages ==
    Stored # NoConversation =>
        \A i \in 1..Len(Stored.messages) :
            Stored.updated_at >= Stored.messages[i].timestamp

\* C22: a save that fails while send_message handles a message fails the
\* request: no response of send_message is a success unless its save was.
C22_SaveFailureIsFatal ==
    response.status = 200 => response.saved

-----------------------------------------------------------------------------
(* ContextRetrieval.get_combined_context (retrieval.py).  SpecContext fills *)
(* the episodic memory and the knowledge base as SpecMemory does and reads  *)
(* the three contexts, each store answering or failing at each read.       *)

max_conversation_messages == 10
max_knowledge_results == 3

RelevantKnowledge ==
    <<"R", "e", "l", "e", "v", "a", "n", "t", " ", "K", "n", "o", "w", "l",
      "e", "d", "g", "e", ":">>
Digits == <<"1", "2", "3", "4", "5", "6", "7", "8", "9">>

\* Conversation.get_messages(limit): the most recent limit messages
get_messages(c, limit) ==
    SubSeq(c.messages, Max(1, Len(c.messages) - limit + 1), Len(c.messages))

\* get_conversation_context, lines 50-62
get_conversation_context(conversation_id, ok) ==
    LET c == load_conversation(Database, conversation_id, ok) IN
    IF c = NoConversation THEN <<>>
    ELSE LET recent == get_messages(c, max_conversation_messages) IN
         Join(BlankLine,
              [i \in 1..Len(recent) |->
                  Capitalize(Chars(recent[i].role)) \o <<":", " ">>
                  \o recent[i].content])

\* search_knowledge_base, lines 348-365: the results it may return
search_knowledge_base(query_, limit, ok) ==
    IF ~vector_db_client THEN {<<>>}
    ELSE VectorSearch("knowledge", None, limit, ok)

\* get_knowledge_context, lines 79-87, on the results of the search
FormatKnowledge(results) ==
    IF results = <<>> THEN <<>>
    ELSE Join(BlankLine,
              <<RelevantKnowledge>>
              \o [i \in 1..Len(results) |->
                     <<Digits[i], ".", " ">> \o results[i].text])

\* which of the three reads are answered
Answers == [conversation : BOOLEAN, knowledge : BOOLEAN, episodic : BOOLEAN]

\* one failed read empties the whole bundle
get_combined_context_all_or_nothing(conversation_id, user_id, query_, f) ==
    {[conversation_history |->
          IF f.conversation /\ f.knowledge /\ f.episodic
          THEN get_conversation_context(conversation_id, TRUE) ELSE <<>>,
      knowledge_context |->
          IF f.conversation /\ f.knowledge /\ f.episodic
          THEN FormatKnowledge(k) ELSE <<>>,
      user_context |->
          IF f.conversation /\ f.knowledge /\ f.episodic
          THEN FormatEpisodic(m) ELSE <<>>] :
        k \in search_knowledge_base(query_, max_knowledge_results, f.knowledge),
        m \in search_episodic_memory(user_id, query_, max_episodic_results,
                                     f.episodic)}

\* get_combined_context, lines 135-143: the bundles it may return
get_combined_context(conversation_id, user_id, query_, f) ==
    {[conversation_history |->
          get_conversation_context(conversation_id, f.conversation),
      knowledge_context |-> FormatKnowledge(k),
      user_context |-> FormatEpisodic(m)] :
        k \in search_knowledge_base(query_, max_knowledge_results, f.knowledge),
        m \in search_episodic_memory(user_id, query_, max_episodic_results,
                                     f.episodic)}

\* the conversation store after create_conversation and one send_message
StoreAfterOneExchange ==
    LET m1 == [message_id |-> 1, role |-> "user", content |-> UserText,
               timestamp |-> 1]
        m2 == [message_id |-> 2, role |-> "assistant",
               content |-> AssistantText, timestamp |-> 2]
        Row(m) == [message_id |-> m.message_id,
                   conversation_id |-> ConversationId, role |-> m.role,
                   content |-> m.content, timestamp |-> m.timestamp]
    IN  /\ conversations = {[conversation_id |-> ConversationId,
                             title |-> NewTitle, updated_at |-> 2]}
        /\ messages = <<Row(m1), Row(m2)>>
        /\ clock = 2
        /\ requests = [r \in Requests |->
                          [pc |-> "idle", conversation |-> NoConversation,
                           stale |-> FALSE]]
        /\ last_commit =
               [conversation |->
                    [conversation_id |-> ConversationId, title |-> NewTitle,
                     updated_at |-> 2, messages |-> <<m1, m2>>],
                concurrent |-> FALSE]
        /\ response = [status |-> 200, saved |-> TRUE]

InitContext ==
    /\ RouterDefault /\ ComplexityIdle /\ WrapperIdle /\ RestIdle /\ LearningIdle
    /\ StoreIdle \/ StoreAfterOneExchange
    /\ vector_db_client \in BOOLEAN
    /\ episodic_memory = <<>>
    /\ vector_store = [knowledge |-> <<>>, episodic_memory |-> <<>>]
    /\ acked = {} /\ ret = [op |-> "none"]

GetCombinedContext(conversation_id, user_id, query_) ==
    /\ \E f \in Answers :
       \E bundle \in get_combined_context(conversation_id, user_id, query_, f) :
          ret' = [op |-> "get_combined_context",
                  conversation_id |-> conversation_id, user_id |-> user_id,
                  query |-> query_, answered |-> f, bundle |-> bundle]
    /\ UNCHANGED <<vector_db_client, episodic_memory, vector_store, acked>>
    /\ UNCHANGED <<routerVars, complexityVars, wrapperVars, learningVars,
                   storeVars, restVars>>

NextContext ==
    \/ \E turns \in ScannedConversations : SaveLearnings(turns, "alex")
    \/ AddToKnowledgeBase(TxtKnowledge, "alex")
    \/ \E user_id \in Users :
          GetCombinedContext(ConversationId, user_id, QName)

SpecContext == InitContext /\ [][NextContext]_vars

-----------------------------------------------------------------------------
(* Claims about get_combined_context *)

\* C19: get_combined_context does not fail when a store is unavailable: the
\* bundle has its three keys, the entry of a source whose read failed is
\* the empty string, and the other entries are what they are without a
\* failure.
C19_FailedSourceIsEmpty ==
    ret.op = "get_combined_context" =>
        /\ DOMAIN ret.bundle
               = {"conversation_history", "knowledge_context", "user_context"}
        /\ ret.bundle.conversation_history =
               IF ret.answered.conversation
               THEN get_conversation_context(ret.conversation_id, TRUE)
               ELSE <<>>
        /\ IF ret.answered.knowledge
           THEN \E k \in search_knowledge_base(ret.query, max_knowledge_results,
                                               TRUE) :
                   ret.bundle.knowledge_context = FormatKnowledge(k)
           ELSE ret.bundle.knowledge_context = <<>>
        /\ IF ret.answered.episodic
           THEN \E m \in search_episodic_memory(ret.user_id, ret.query,
                                                max_episodic_results, TRUE) :
                   ret.bundle.user_context = FormatEpisodic(m)
           ELSE ret.bundle.user_context = <<>>

\* the knowledge search failed with a document in the knowledge base, and
\* the conversation history and the user context are there
C19_Witness ==
    /\ ret.op = "get_combined_context"
    /\ vector_db_client /\ Len(vector_store.knowledge) > 0
    /\ ~ret.answered.knowledge
    /\ ret.answered.conversation /\ ret.answered.episodic
    /\ ret.bundle.knowledge_context = <<>>
    /\ In(UserText, ret.bundle.conversation_history)
    /\ In(TxtNameAlex, ret.bundle.user_context)

-----------------------------------------------------------------------------
(* Further properties of the router (Spec) *)

\* BaseModelWrapper.max_tokens: self._token_limits.get(model_name, 4096)
max_tokens(m) ==
    CASE m = GPT4       -> 8192
      [] m = GPT35Turbo -> 4096
      [] m = Llama      -> 4096
      [] m = Mistral    -> 8192
      [] OTHER          -> 4096

\* C23: with the primary available, a query is given to a fallback model
\* only when its token count is within that model's token limit.
C23_OffloadFitsFallback ==
    (pc # "idle" /\ is_available[primary_model] /\ model # None
     /\ model # primary_model)
        => token_count <= max_tokens(model)

\* the models of the router that are available
AvailableModels ==
    {m \in {primary_model} \cup Range(fallback_models) : is_available[m]}

\* the models whose call has raised in this call of the router
Failed == {log[i].model : i \in {k \in 1..Len(log) : log[k].status = "raised"}}

\* C24: generate fails with the all-models-failed error only when every
\* available model of the router, the primary and each available fallback,
\* was called for the query and raised.
C24_AllFailedMeansAllTried ==
    (op = "generate" /\ outcome.kind = "AllModelsFailed")
        => AvailableModels \subseteq Failed

\* C29: a router built with a fallback list L, the empty list included, has
\* as fallback list the available models of L in the order of L, and a
\* router built with the empty list calls no model but its primary.
C29_FallbacksAreFilteredArgument ==
    fallback_arg.given =>
        /\ fallback_models
               = SelectSeq(fallback_arg.list, LAMBDA m : is_available[m])
        /\ fallback_arg.list = <<>>
               => /\ model \in {None, primary_model}
                  /\ \A i \in 1..Len(log) : log[i].model = primary_model

-----------------------------------------------------------------------------
(* PerformanceTracker (performance_tracker.py).  The metrics file is       *)
(* missing, not JSON, or a JSON object; tracker.metrics is a dictionary    *)
(* from category to the list of its entries.                               *)

MaxEntries == 2       \* most entries recorded in one category

Categories ==
    {"user_satisfaction", "learning_efficiency", "knowledge_retention",
     "task_completion"}

\* self.metrics of __init__, lines 15-20
DefaultMetrics == [c \in Categories |-> <<>>]

Json(data) == [kind |-> "json", data |-> data]

\* the metrics files a tracker is constructed on
MetricsFiles ==
    {[kind |-> "missing", data |-> <<>>],
     [kind |-> "invalid", data |-> <<>>],
     Json([c \in {} |-> <<>>]),
     Json([c \in {"task_completion"} |-> <<>>]),
     Json(DefaultMetrics)}

\* _save_metrics: json.dump(self.metrics, f)
save_metrics(metrics) == Json(metrics)

\* _load_metrics: the file and self.metrics after the call
load_metrics(file, metrics) ==
    IF file.kind = "json"
    THEN [file |-> file, metrics |-> file.data]
    ELSE [file |-> save_metrics(metrics), metrics |-> metrics]

\* PerformanceTracker(metrics_file)
PerformanceTracker(file) ==
    LET t == load_metrics(file, DefaultMetrics) IN
    [file |-> t.file, metrics |-> t.metrics, constructed |-> TRUE,
     last |-> NoCall]

InitTracker ==
    /\ RouterDefault /\ ComplexityIdle /\ WrapperIdle
    /\ LearningIdle /\ MemoryIdle /\ StoreIdle /\ GatewayIdle /\ ChatIdle
    /\ \E file \in MetricsFiles : tracker = PerformanceTracker(file)

\* record_user_satisfaction, record_learning_efficiency,
\* record_knowledge_retention, record_task_completion: an entry is appended
\* to self.metrics[category] and the metrics are saved; a category that is
\* not in the dictionary raises KeyError before anything is written
Record(category) ==
    /\ tracker.constructed
    /\ IF category \in DOMAIN tracker.metrics
       THEN /\ Len(tracker.metrics[category]) < MaxEntries
            /\ LET metrics_ == [tracker.metrics EXCEPT
                                   ![category] = Append(@, category)]
               IN  tracker' =
                       [file |-> save_metrics(metrics_), metrics |-> metrics_,
                        constructed |-> TRUE,
                        last |-> [category |-> category, raised |-> FALSE,
                                  before |-> Len(tracker.metrics[category])]]
       ELSE tracker' = [tracker EXCEPT
                           !.last = [category |-> category, raised |-> TRUE,
                                     before |-> 0]]
    /\ UNCHANGED <<routerVars, complexityVars, wrapperVars, learningVars,
                   memoryVars, storeVars, gatewayVars, chatVars>>

\* a new tracker is constructed on the file the last one left
Reconstruct ==
    /\ tracker.constructed
    /\ tracker' = PerformanceTracker(tracker.file)
    /\ UNCHANGED <<routerVars, complexityVars, wrapperVars, learningVars,
                   memoryVars, storeVars, gatewayVars, chatVars>>

NextTracker ==
    \/ \E category \in Categories : Record(category)
    \/ Reconstruct

SpecTracker == InitTracker /\ [][NextTracker]_vars

\* C25: a tracker constructed on any metrics file has the four categories
\* in tracker.metrics, and every record_* call appends exactly one entry to
\* its category.
C25_FourCategoriesAfterInit ==
    tracker.constructed =>
        /\ Categories \subseteq DOMAIN tracker.metrics
        /\ tracker.last.category # None =>
              /\ ~tracker.last.raised
              /\ Len(tracker.metrics[tracker.last.category])
                     = tracker.last.before + 1

-----------------------------------------------------------------------------
(* process_text_request (core_engine/src/main.py) and the two              *)
(* APIGateway.process_message that call it.  conversation_histories is a   *)
(* dictionary of the module; a key without history is not in it.           *)

MaxRequests == 3      \* most requests made through the gateways

SessionIds == {"", "s1", "s2"}
Prompts == {"hello", "secret"}
Uuids == <<"u1", "u2", "u3", "u4">>

SystemPrompt == [role |-> "system", content |-> "system", request |-> 0]

\* str(uuid.uuid4()): a key no request has used
NewUuid == Uuids[Len(gateway.calls) + 1]

\* api_gateway.py lines 46-51: the session the request is processed under
SessionOfFlask(session_id) ==
    IF session_id = "" THEN NewUuid ELSE session_id

\* core-engine integration/api_gateway/main.py line 48:
\* process_text_request(self.engine, message), session_id left at its default
SessionOfCore(session_id) == ""

\* process_text_request, lines 62-88, for request number n: the histories
\* after the call and the history given to chat_with_history
process_text_request(histories, prompt, session_id, n, chat_ok) ==
    LET started == IF histories[session_id] = <<>>
                   THEN [histories EXCEPT ![session_id] = <<SystemPrompt>>]
                   ELSE histories
        asked == [started EXCEPT ![session_id] =
                     Append(@, [role |-> "user", content |-> prompt,
                                request |-> n])]
    IN  [sent |-> asked[session_id],
         conversation_histories |->
             IF chat_ok
             THEN [asked EXCEPT ![session_id] =
                      Append(@, [role |-> "assistant", content |-> prompt,
                                 request |-> n])]
             ELSE asked]

InitGateway ==
    /\ RouterDefault /\ ComplexityIdle /\ WrapperIdle
    /\ LearningIdle /\ MemoryIdle /\ StoreIdle /\ TrackerIdle /\ GatewayIdle
    /\ ChatIdle

\* one process_message call of a gateway that processes it under session key
ProcessMessage(name, message, session_id, key) ==
    /\ Len(gateway.calls) < MaxRequests
    /\ \E chat_ok \in BOOLEAN :
          LET n == Len(gateway.calls) + 1
              r == process_text_request(gateway.conversation_histories,
                                        message, key, n, chat_ok)
          IN  gateway' =
                  [conversation_histories |-> r.conversation_histories,
                   calls |-> Append(gateway.calls,
                                    [gateway |-> name,
                                     session_id |-> session_id]),
                   sent |-> r.sent]
    /\ UNCHANGED <<routerVars, complexityVars, wrapperVars, learningVars,
                   memoryVars, storeVars, trackerVars, chatVars>>

\* APIGateway.process_message of core-engine integration/api_gateway/main.py
ProcessMessageCore(message, session_id) ==
    ProcessMessage("core", message, session_id, SessionOfCore(session_id))

\* APIGateway.process_message of integration/api_gateway/api_gateway.py
ProcessMessageFlask(message, session_id) ==
    ProcessMessage("flask", message, session_id, SessionOfFlask(session_id))

NextGateway ==
    \E message \in Prompts : \E session_id \in SessionIds :
        \/ ProcessMessageCore(message, session_id)
        \/ ProcessMessageFlask(message, session_id)

SpecGateway == InitGateway /\ [][NextGateway]_vars

\* the requests whose messages the request n may see: itself, and the
\* earlier requests made with the same, non-empty, session id
SameSession(n) ==
    {n} \cup {k \in 1..(n - 1) :
                 /\ gateway.calls[n].session_id # ""
                 /\ gateway.calls[k].session_id = gateway.calls[n].session_id}

\* C28: through either gateway, the history given to the model for a request
\* with session id s holds the system prompt and messages of requests made
\* with the same session id only; a request without a session id sees no
\* message of another request.
C28_SessionIsolation ==
    gateway.calls # <<>> =>
        \A i \in 1..Len(gateway.sent) :
            \/ gateway.sent[i] = SystemPrompt
            \/ gateway.sent[i].request \in SameSession(Len(gateway.calls))

-----------------------------------------------------------------------------
(* The message endpoints of conversation.py, one request at a time: the    *)
(* user id under which a handler reads and writes episodic memory, and the *)
(* learnings it stores.  send_message is behind verify_scope and has the   *)
(* verified subject of the bearer token; the websocket endpoint has no     *)
(* token dependency, its messages carry a user id in the payload.          *)

Anonymous == "anonymous"
Subjects == {"alex"}
PayloadUsers == {"alex", Anonymous}
ChatContents == {TxtNameAlex, TxtHello}

Access(kind, user_id) ==
    [kind |-> kind, endpoint |-> chat.endpoint, subject |-> chat.subject,
     user_id |-> user_id]

\* send_message, lines 209-213: user_id=token_data.sub
UserIdOfSendMessage(subject, payload_user) == subject

\* websocket_conversation, line 379: data.get("user_id", "anonymous")
UserIdOfWebsocket(subject, payload_user) == payload_user

InitChat ==
    /\ RouterDefault /\ ComplexityIdle /\ WrapperIdle
    /\ LearningIdle /\ MemoryIdle /\ StoreIdle
    /\ TrackerIdle /\ GatewayIdle /\ ChatIdle

\* the handler up to the model call: the conversation is loaded, the user
\* message added and the combined context read under user_id
ReceiveMessage(endpoint, subject, user_id, content) ==
    /\ chat.pc = "idle"
    /\ clock + 2 <= MaxMessages
    /\ \E ok \in BOOLEAN : \E f \in Answers :
          LET c == load_conversation(Database, ConversationId, ok)
              c1 == add_message(c, Message("user", content))
          IN  /\ c # NoConversation
              /\ Len(episodic_memory)
                     + Len(extract_learning(c1.messages, user_id)) <= MaxRecords
              /\ \E bundle \in get_combined_context(ConversationId, user_id,
                                                    content, f) :
                    chat' = [pc |-> "generating", endpoint |-> endpoint,
                             subject |-> subject, user_id |-> user_id,
                             conversation |-> c1,
                             sent |-> Append(chat.sent, content),
                             accesses |-> chat.accesses
                                 \cup {[kind |-> "read", endpoint |-> endpoint,
                                        subject |-> subject,
                                        user_id |-> user_id]}]
    /\ clock' = clock + 1
    /\ UNCHANGED <<conversations, messages, requests, last_commit, response>>
    /\ UNCHANGED <<routerVars, complexityVars, wrapperVars, learningVars,
                   memoryVars, trackerVars, gatewayVars>>

\* send_message, lines 191-213
SendMessageReceive(subject, content) ==
    ReceiveMessage("send_message", subject,
                   UserIdOfSendMessage(subject, None), content)

\* websocket_conversation, lines 361-393, of a client that connects without
\* any token and names payload_user in its message
WebsocketMessage(payload_user, content) ==
    ReceiveMessage("websocket", None,
                   UserIdOfWebsocket(None, payload_user), content)

\* send_message lines 246-248 and websocket_conversation lines 445-447:
\* extract_learning(conversation, user_id), all its messages scanned
LearnFrom(c, user_id) == extract_learning(c.messages, user_id)

\* the handler after the model call: the assistant message is added, the
\* conversation saved, the learnings extracted and saved under user_id
Reply ==
    /\ chat.pc = "generating"
    /\ LET c == add_message(chat.conversation,
                            Message("assistant", AssistantText))
           records == LearnFrom(c, chat.user_id)
       IN  \E ok \in BOOLEAN : \E faults \in [1..Len(records) -> Faults] :
             LET db == save_conversation(Database, c, ok)
                 r == save_learnings(records, faults)
             IN  /\ conversations' = db.conversations
                 /\ messages' = db.messages
                 /\ last_commit' =
                        IF ok THEN [conversation |-> c, concurrent |-> FALSE]
                        ELSE last_commit
                 /\ response' = IF chat.endpoint = "send_message"
                                THEN [status |-> 200, saved |-> ok]
                                ELSE response
                 /\ episodic_memory' = r.episodic_memory
                 /\ vector_store' = r.vector_store
                 /\ acked' = acked \cup Range(r.memory_ids)
                 /\ ret' = [op |-> "save_learnings", records |-> records,
                            before |-> Len(episodic_memory), log |-> r.log,
                            memory_ids |-> r.memory_ids]
                 /\ chat' = [chat EXCEPT
                        !.pc = "idle", !.endpoint = None,
                        !.subject = None, !.user_id = None,
                        !.conversation = NoConversation,
                        !.accesses =
                            IF records = <<>> THEN @
                            ELSE @ \cup {Access("write", chat.user_id)}]
    /\ clock' = clock + 1
    /\ UNCHANGED <<vector_db_client, requests>>
    /\ UNCHANGED <<routerVars, complexityVars, wrapperVars, learningVars,
                   trackerVars, gatewayVars>>

NextChat ==
    \/ CreateConversation("r1")
    \/ \E subject \in Subjects : \E content \in ChatContents :
          SendMessageReceive(subject, content)
    \/ \E payload_user \in PayloadUsers : \E content \in ChatContents :
          WebsocketMessage(payload_user, content)
    \/ Reply

SpecChat == InitChat /\ [][NextChat]_vars

\* the stored records that say the same of the same user
SameRecord(i) ==
    {j \in DOMAIN episodic_memory :
        /\ episodic_memory[j].user_id = episodic_memory[i].user_id
        /\ episodic_memory[j].memory_type = episodic_memory[i].memory_type
        /\ episodic_memory[j].content = episodic_memory[i].content}

\* the user messages sent with that text
SentWith(content) == {k \in DOMAIN chat.sent : chat.sent[k] = content}

\* C27: over the sends of one conversation each user message gives at most
\* one stored episodic record per memory type; a later send does not store
\* again the learning of an earlier message.
C27_LearningStoredOnce ==
    \A i \in DOMAIN episodic_memory :
        Cardinality(SameRecord(i))
            <= Cardinality(SentWith(episodic_memory[i].content))

\* C30: every user id under which episodic memory is read or written is the
\* verified subject of the request's bearer token, never a user id that the
\* payload merely names.
C30_UserIdIsTokenSubject ==
    \A a \in chat.accesses : a.subject # None /\ a.user_id = a.subject

-----------------------------------------------------------------------------
(* websocket_conversation with the router's generate_stream: the chunks    *)
(* the stream yields are concatenated into the assistant message that is   *)
(* saved.  The router is the ModelRouter() of get_model_router.            *)

MaxStreams == 1       \* most replies streamed over one socket

\* full_response = ""; full_response += chunk for every chunk of the stream
RECURSIVE full_response(_, _)
full_response(cs, i) ==
    IF i > Len(cs) THEN <<>> ELSE <<cs[i]>> \o full_response(cs, i + 1)

\* the prompt built from the context and the user message
SocketPrompts == {[words |-> <<"weather">>, pad |-> 600]}

InitSocket ==
    /\ is_available \in [Wrappers -> BOOLEAN]
    /\ primary_arg = None
    /\ fallback_arg = [given |-> FALSE, list |-> <<>>]
    /\ primary_model = RouterPrimary(primary_arg)
    /\ fallback_models = RouterFallbacks(fallback_arg, is_available)
    /\ complexity_threshold = DefaultComplexityThreshold
    /\ token_threshold = DefaultTokenThreshold
    /\ CallIdle /\ ComplexityIdle /\ WrapperIdle /\ DataIdle

Streamed(c) ==
    Cardinality({i \in DOMAIN c.messages : c.messages[i].role = "user"})

\* websocket_conversation, lines 373-415: a message is received and added,
\* and generate_stream is started on the prompt
SocketReceive(r, q, t) ==
    /\ requests[r].pc = "open" /\ pc = "idle"
    /\ Streamed(requests[r].conversation) < MaxStreams
    /\ Budget + 2 <= MaxMessages
    /\ requests' = [requests EXCEPT ![r] =
           [@ EXCEPT !.pc = "streaming",
                     !.conversation = add_message(@, Message("user", UserText))]]
    /\ clock' = clock + 1
    /\ op' = "generate_stream" /\ query' = q /\ token_count' = t
    /\ LET sel == select_model(q, t) IN
         IF sel = NoModelAvailable
         THEN /\ pc' = "done" /\ outcome' = RaisedNoModel
              /\ UNCHANGED <<model, log>>
         ELSE /\ pc' = "selected_running" /\ model' = sel
              /\ log' = <<Running(sel)>>
              /\ UNCHANGED outcome
    /\ UNCHANGED <<e, idx, chunks, configVars>>
    /\ UNCHANGED <<conversations, messages, last_commit, response>>
    /\ UNCHANGED <<complexityVars, wrapperVars, learningVars, memoryVars,
                   restVars>>

\* websocket_conversation, lines 416-433 and 463-469: the stream is over.
\* The assistant message is made of full_response and added; a stream that
\* raised (no model available) ends the handler in its except clause.
SocketStreamOver(r) ==
    /\ requests[r].pc = "streaming"
    /\ op = "generate_stream" /\ pc = "done"
    /\ IF outcome = RaisedNoModel
       THEN /\ requests' = [requests EXCEPT ![r] =
                   [pc |-> "idle", conversation |-> NoConversation,
                    stale |-> FALSE]]
            /\ UNCHANGED clock
       ELSE /\ requests' = [requests EXCEPT ![r] =
                   [@ EXCEPT !.pc = "ws_saving",
                             !.conversation =
                                 add_message(@, Message("assistant",
                                                        full_response(chunks, 1)))]]
            /\ clock' = clock + 1
    /\ pc' = "idle" /\ op' = "none"
    /\ query' = [words |-> <<>>, pad |-> 0] /\ token_count' = 0
    /\ model' = None /\ e' = None /\ idx' = 0
    /\ log' = <<>> /\ outcome' = NoOutcome /\ chunks' = <<>>
    /\ UNCHANGED configVars
    /\ UNCHANGED <<conversations, messages, last_commit, response>>
    /\ UNCHANGED <<complexityVars, wrapperVars, learningVars, memoryVars,
                   restVars>>

NextSocket ==
    \/ CreateConversation("r1")
    \/ WebsocketConnect("r1")
    \/ \E q \in SocketPrompts : \E t \in get_token_count_range(q) :
          SocketReceive("r1", q, t)
    \/ StreamChunk
    \/ StreamCompletes
    \/ StreamSelectedRaises
    \/ StreamFallbackRaises
    \/ SocketStreamOver("r1")
    \/ WebsocketSave("r1")
    \/ WebsocketDisconnect("r1")

SpecSocket == InitSocket /\ [][NextSocket]_vars

\* C26: the assistant message stored after a streamed reply is made of
\* content chunks of a model only; no transition notice and no
\* all-models-failed sentinel is stored as assistant content.
C26_OnlyModelContentStored ==
    \A i \in DOMAIN messages :
        messages[i].role = "assistant" =>
            \A k \in DOMAIN messages[i].content :
                messages[i].content[k].type = "content"

====
